---------------------------- MODULE Spec2Model ----------------------------
(***************************************************************************)
(* A model of janschill/auto-focus-cloud: the fixed-window rate limiter    *)
(* (internal/ratelimit), the Storage backends (storage: Memory, File,      *)
(* SQLite), the provisioning flow of the Stripe webhook and the license    *)
(* validation handler (handlers).                                          *)
(*                                                                         *)
(* The module holds several specifications over one set of variables; a    *)
(* specification leaves the variables of the other components unchanged:   *)
(*   SpecRL     threads calling FixedWindowLimitter.Allow                  *)
(*   SpecStore  one caller of the Storage interface, which also handles    *)
(*              purchase events one at a time                              *)
(*   SpecProv   purchase events provisioned by concurrent requests         *)
(*   SpecBackends  the same Storage calls made on the three backends       *)
(*   SpecMemory    goroutines calling one MemoryStorage                    *)
(*   SpecValidate  validate requests over a storage holding licenses       *)
(*   SpecLookup    customers saved at different times and looked up        *)
(*   SpecWebhook   deliveries to the Stripe webhook in any configuration   *)
(*   SpecEndToEnd  purchase events, then validate requests for their keys  *)
(*   SpecServer    requests to the mux of NewHttpServer, rate limited      *)
(*   SpecFile      one FileStorage after another on the same file          *)
(*   SpecRepeat    the purchases of one address, with differing details    *)
(***************************************************************************)
EXTENDS Integers, Sequences, FiniteSets, TLC

\* ------------------------------------------------------------------ bounds

\* Largest configured limit (maxRequests) the limiter is created with.
MaxLimit == 2
\* Largest configured window, in clock ticks.
MaxWindow == 1
\* The clock stops advancing at MaxTime.
MaxTime == 2
\* Number of Allow calls made in one behaviour.
MaxCalls == 4

\* Rate-limit keys (remote addresses) and calling threads (one per request).
Keys == {"ip1", "ip2"}
Threads == {"t1", "t2"}

\* Concurrent webhook requests, and the purchase events handled in one behaviour.
Reqs == {"r1", "r2"}
MaxProvisions == 2

\* Go's nil pointer: a record no stored value equals.
Nil == [nil |-> TRUE]
NoThread == "none"

VARIABLES
    \* FixedWindowLimitter (ratelimit.go:17-22)
    maxRequests,   \* rl.maxRequests
    window,        \* rl.window
    requests,      \* rl.requests: key -> *WindowData or Nil
    mutex,         \* rl.mutex: the thread holding it, or NoThread
    \* the callers of Allow
    clock,         \* time.Now()
    pc,            \* each thread's position in Allow
    addr,          \* each thread's argument addr
    nowv,          \* each thread's local now
    wd,            \* each thread's local wd (the record it read, or Nil)
    ret,           \* each thread's return value
    log,           \* history: one entry per decided call, in decision order
    \* Storage (storage.go: MemoryStorage, FileStorage, SQLiteStorage)
    backend,       \* which implementation of Storage the server holds
    fileData,      \* FileStorage: the customers in the JSON file at filepath
    customers,     \* Data / customers / table customers: ID -> Customer or Nil
    licenses,      \* Licenses / licenses / table licenses: ID -> License or Nil
    last,          \* the last Storage call of a direct caller and what it returned
    \* provisioning requests (handlers/stripe.go)
    ppc,           \* each request's position in createLicensedUser
    pev,           \* each request's checkout session
    pcust,         \* each request's local customer
    pout,          \* outcomes of the finished requests, in order
    \* the three backends given the same calls (storage_test.go:471-547)
    stores,        \* backend -> its customers and licenses
    answers,       \* backend -> what it returned to the last call
    \* goroutines calling one MemoryStorage (part_010:31-125)
    mpc,           \* each goroutine's position: "idle" or "inside" a method
    mop,           \* the method each goroutine is in, with its argument
    fatal,         \* the Go runtime stopped the process (concurrent map access)
    \* license validation (handlers: ValidateLicense)
    hmacSecret,    \* the environment variable HMAC_SECRET ("" when unset)
    vresp,         \* the last validate request and the response written to it
    \* the Stripe webhook (handlers/stripe.go: Stripe)
    env,           \* the environment variables the webhook reads
    wresp,         \* the last webhook delivery and the response written to it
    \* the HTTP server (handlers: NewHttpServer and the middleware)
    hx,            \* the last request to the mux and how it was answered
    seen,          \* per remote address: its validate requests so far
    passed,        \* per remote address: those that reached ValidateLicense
    mixed          \* per remote address: it also sent webhook deliveries

rlVars == <<maxRequests, window, requests, mutex, clock, pc, addr, nowv, wd, ret, log>>

stVars == <<backend, fileData, customers, licenses, last, ppc, pev, pcust, pout>>

\* The variables of the backends run side by side.
eqVars == <<stores, answers>>
msVars == <<mpc, mop, fatal>>
vlVars == <<hmacSecret, vresp>>
whVars == <<env, wresp>>
srvVars == <<hx, seen, passed, mixed>>
xVars == <<eqVars, msVars, vlVars, whVars, srvVars>>

vars == <<rlVars, stVars, xVars>>

\* ------------------------------------------------------ rate limiter: code

\* ratelimit.go:24-30 New: the limit and the window are stored as given and
\* the map starts empty.
NoCallers ==
    /\ requests = [k \in Keys |-> Nil]
    /\ mutex = NoThread
    /\ clock = 0
    /\ pc = [t \in Threads |-> "idle"]
    /\ addr = [t \in Threads |-> "ip1"]
    /\ nowv = [t \in Threads |-> 0]
    /\ wd = [t \in Threads |-> Nil]
    /\ ret = [t \in Threads |-> FALSE]
    /\ log = <<>>

InitLimiter ==
    /\ maxRequests \in 0..MaxLimit
    /\ window \in 0..MaxWindow
    /\ NoCallers

\* Mutant of MutexFree: Allow without the mutex.
MutexFree_NoLock == TRUE

\* ratelimit.go:33 rl.mutex.Lock() succeeds only when no thread holds it.
MutexFree == mutex = NoThread

\* Mutant of WindowExpired: the subtraction with its operands swapped.
WindowExpired_Swapped(nowt, ws) == ws - nowt > window

\* Mutant of WindowExpired: a window is over as soon as it is W old.
WindowExpired_Inclusive(nowt, ws) == nowt - ws >= window

\* ratelimit.go:40 now.Sub(wd.windowStart) > rl.window
WindowExpired(nowt, ws) == nowt - ws > window

\* Mutant of ZeroLimit: the zero-limit test left out.
ZeroLimit_Missing == FALSE

\* ratelimit.go:41 rl.maxRequests == 0
ZeroLimit == maxRequests = 0

\* Mutant of NewWindowData: the call that opens a window is not counted.
NewWindowData_CountZero(nowt) == [count |-> 0, windowStart |-> nowt]

\* ratelimit.go:45-48 the record a new window starts with
NewWindowData(nowt) == [count |-> 1, windowStart |-> nowt]

\* Mutant of LimitReached: off by one.
LimitReached_OffByOne(count) == count > maxRequests

\* ratelimit.go:54 wd.count >= rl.maxRequests
LimitReached(count) == count >= maxRequests

\* Mutant of StoreWindow: one record shared by all keys.
StoreWindow_Shared(reqs, k, rec) == [kk \in Keys |-> rec]

\* ratelimit.go:49 rl.requests[addr] = wd, and the write through the pointer
\* wd of line 57: only addr's entry of the map changes.
StoreWindow(reqs, k, rec) == [reqs EXCEPT ![k] = rec]

\* ratelimit.go:32 a request thread calls Allow(k).
Call(t, k) ==
    /\ pc[t] = "idle"
    /\ Len(log) + Cardinality({u \in Threads : pc[u] \in {"waiting", "locked", "read"}}) < MaxCalls
    /\ addr' = [addr EXCEPT ![t] = k]
    /\ pc' = [pc EXCEPT ![t] = "waiting"]
    /\ UNCHANGED <<maxRequests, window, requests, mutex, clock, nowv, wd, ret, log>>
    /\ UNCHANGED <<stVars, xVars>>

\* ratelimit.go:33 rl.mutex.Lock(): the thread blocks until the mutex is free.
Lock(t) ==
    /\ pc[t] = "waiting"
    /\ MutexFree
    /\ mutex' = t
    /\ pc' = [pc EXCEPT ![t] = "locked"]
    /\ UNCHANGED <<maxRequests, window, requests, clock, addr, nowv, wd, ret, log>>
    /\ UNCHANGED <<stVars, xVars>>

\* ratelimit.go:36-37 now := time.Now(); wd := rl.requests[addr]
ReadWindow(t) ==
    /\ pc[t] = "locked"
    /\ nowv' = [nowv EXCEPT ![t] = clock]
    /\ wd' = [wd EXCEPT ![t] = requests[addr[t]]]
    /\ pc' = [pc EXCEPT ![t] = "read"]
    /\ UNCHANGED <<maxRequests, window, requests, mutex, clock, addr, ret, log>>
    /\ UNCHANGED <<stVars, xVars>>

\* Mutant of AllowOn: a refused call starts the key's window again.
AllowOn_DeniedRestartsWindow(w, k, nowt) ==
    IF w = Nil \/ WindowExpired(nowt, w.windowStart)
    THEN IF ZeroLimit
         THEN [ok |-> FALSE, reqs |-> requests]
         ELSE [ok |-> TRUE, reqs |-> StoreWindow(requests, k, NewWindowData(nowt))]
    ELSE IF LimitReached(w.count)
         THEN [ok |-> FALSE,
               reqs |-> StoreWindow(requests, k, [w EXCEPT !.windowStart = nowt])]
         ELSE [ok |-> TRUE,
               reqs |-> StoreWindow(requests, k, [w EXCEPT !.count = w.count + 1])]

\* ratelimit.go:40-59 the decision on a call for key k at time nowt that
\* read the record w: the result and the new map.
AllowOn(w, k, nowt) ==
    IF w = Nil \/ WindowExpired(nowt, w.windowStart)
    THEN IF ZeroLimit
         THEN [ok |-> FALSE, reqs |-> requests]
         ELSE [ok |-> TRUE, reqs |-> StoreWindow(requests, k, NewWindowData(nowt))]
    ELSE IF LimitReached(w.count)
         THEN [ok |-> FALSE, reqs |-> requests]
         ELSE [ok |-> TRUE,
               reqs |-> StoreWindow(requests, k, [w EXCEPT !.count = w.count + 1])]

\* ratelimit.go:40-59 as thread t executes it.
AllowResult(t) == AllowOn(wd[t], addr[t], nowv[t])

\* ratelimit.go:32-60 Allow(addr) from Lock to Unlock, no other call in between.
Allow(k) == AllowOn(requests[k], k, clock)

\* ratelimit.go:40-59 executed by thread t; the call is decided here.
Decide(t) ==
    /\ pc[t] = "read"
    /\ LET r == AllowResult(t) IN
        /\ requests' = r.reqs
        /\ ret' = [ret EXCEPT ![t] = r.ok]
        /\ log' = Append(log, [key |-> addr[t], t |-> nowv[t], ok |-> r.ok])
    /\ pc' = [pc EXCEPT ![t] = "decided"]
    /\ UNCHANGED <<maxRequests, window, mutex, clock, addr, nowv, wd>>
    /\ UNCHANGED <<stVars, xVars>>

\* ratelimit.go:34 defer rl.mutex.Unlock(), run as Allow returns: the mutex is
\* released and the frame's locals are gone (the returned value stays in log).
Unlock(t) ==
    /\ pc[t] = "decided"
    /\ mutex' = NoThread
    /\ pc' = [pc EXCEPT ![t] = "idle"]
    /\ addr' = [addr EXCEPT ![t] = "ip1"]
    /\ nowv' = [nowv EXCEPT ![t] = 0]
    /\ wd' = [wd EXCEPT ![t] = Nil]
    /\ ret' = [ret EXCEPT ![t] = FALSE]
    /\ UNCHANGED <<maxRequests, window, requests, clock, log>>
    /\ UNCHANGED <<stVars, xVars>>

\* time passes (time.Now() is read at ratelimit.go:36)
Tick ==
    /\ clock < MaxTime
    /\ clock' = clock + 1
    /\ UNCHANGED <<maxRequests, window, requests, mutex, pc, addr, nowv, wd, ret, log>>
    /\ UNCHANGED <<stVars, xVars>>

\* ------------------------------------------------------------ storage: data

Backends == {"memory", "file", "sqlite"}

\* Pools the generated and the caller-supplied identifiers are drawn from.
CustIDs == {"c1", "c2"}
LicIDs == {"l1", "l2"}
Emails == {"a@x", "b@x"}
LicKeys == {"AFP-1", "AFP-2"}
Statuses == {"active", "suspended"}
CustomerNames == {"Ann Lee"}

\* error values
ErrNone == "nil"
ErrCustomerNotFound == "customer not found"
ErrNoRows == "sql: no rows in result set"
ErrDriver == "driver error"
ErrForeignKey == "FOREIGN KEY constraint failed"

\* models.Customer as a direct caller builds it (storage_test.go:14-22).
CustomerInputs ==
    [ID : CustIDs, Email : Emails, Name : CustomerNames, Country : {"NO"},
     StripeCustomerID : {"cus_1"}, CreatedAt : {0}, UpdatedAt : {0}]

\* models.License as a direct caller builds it (storage_test.go:25-37).
LicenseInputs ==
    [ID : LicIDs, Key : LicKeys, CustomerID : CustIDs, ProductID : {"prod_test"},
     Version : {"1.0.0"}, Status : Statuses, StripeSessionID : {"cs_test"},
     CreatedAt : {0}, UpdatedAt : {0}]

\* The checkout sessions a purchase event carries (stripe.go:136-143, 334-355,
\* 375-396: email, customer details, Stripe customer, metadata, session ID).
Sessions ==
    [email : Emails, name : CustomerNames, country : {"NO"}, stripeCustomer : {"cus_1"},
     productID : {"p1"}, licenseVersion : {"1.0.0"}, id : {"cs_1"}]

\* What the JSON file of a FileStorage may hold when it is opened.
FileContents ==
    {<<>>,
     <<[ID |-> "c1", Email |-> "a@x", Name |-> "Ann Lee", Country |-> "NO",
        StripeCustomerID |-> "cus_1", CreatedAt |-> 0, UpdatedAt |-> 0]>>}

\* ------------------------------------------------------------ storage: code

\* part_010:249-266 NewSQLiteStorage opens the database with the bare path:
\* no _foreign_keys in the DSN, no PRAGMA foreign_keys = ON in migrate, and
\* the builds (Dockerfile:11, deploy.yml:51) set no sqlite_foreign_keys tag,
\* so go-sqlite3 leaves SQLite's foreign-key enforcement at its default, off.
ForeignKeysOn == FALSE

\* part_010:136-164 loadFromFile: the customers of the file, keyed by ID.
LoadFromFile(data) ==
    [id \in CustIDs |->
        IF \E i \in 1..Len(data) : data[i].ID = id
        THEN LET last_i == CHOOSE i \in 1..Len(data) :
                     data[i].ID = id /\ \A j \in 1..Len(data) : data[j].ID = id => j <= i
             IN data[last_i]
        ELSE Nil]

\* The stored keys of a map / the primary keys of a table.
Stored(m) == {id \in DOMAIN m : m[id] # Nil}

\* part_010:270-276, 341: the columns of table customers (Name and Country
\* have no column).
CustomerRow(c) == [c EXCEPT !.Name = "", !.Country = ""]

\* Mutant of ScanRow: sql.ErrNoRows returned as an error.
ScanRow_NoRowsIsError(err, row) ==
    IF err # ErrNone THEN [val |-> Nil, err |-> err] ELSE [val |-> row, err |-> ErrNone]

\* part_010:308-315 (330-337, 374-381, 400-407): sql.ErrNoRows is (nil, nil),
\* any other error is returned, a row is returned.
ScanRow(err, row) ==
    IF err = ErrNoRows THEN [val |-> Nil, err |-> ErrNone]
    ELSE IF err # ErrNone THEN [val |-> Nil, err |-> err]
    ELSE [val |-> row, err |-> ErrNone]

\* database/sql QueryRowContext(...).Scan over the rows that match: the
\* driver's error, sql.ErrNoRows when none matches, else the first row.
QueryRow(rows, fail) ==
    IF fail THEN {ScanRow(ErrDriver, Nil)}
    ELSE IF rows = {} THEN {ScanRow(ErrNoRows, Nil)}
    ELSE {ScanRow(ErrNone, r) : r \in rows}

\* Mutant of MapLookup: a missing key reported as an error.
MapLookup_MissingIsError(m, id) ==
    IF m[id] = Nil THEN [val |-> Nil, err |-> ErrCustomerNotFound]
    ELSE [val |-> m[id], err |-> ErrNone]

\* part_010:47-53, 69-78, 166-172, 189-198: value, exists := m[id].
MapLookup(m, id) == [val |-> m[id], err |-> ErrNone]

\* part_010:55-62, 80-90, 174-181, 200-210: range over the map (in Go's
\* unspecified order) and return the first match, or (nil, nil).
MapFind(matches) ==
    IF matches = {} THEN {[val |-> Nil, err |-> ErrNone]}
    ELSE {[val |-> r, err |-> ErrNone] : r \in matches}

\* part_010:47-53 / 166-172 / 296-316 GetCustomer: the possible results.
GetCustomerOn(b, cs, id, fail) ==
    IF b = "sqlite"
    THEN QueryRow({cs[i] : i \in {j \in Stored(cs) : j = id}}, fail)
    ELSE {MapLookup(cs, id)}

\* GetCustomer of the backend the server holds.
GetCustomer(id, fail) == GetCustomerOn(backend, customers, id, fail)

\* Mutant of FindCustomerByEmailAddressOn: the lookup finds nobody.
FindCustomerByEmailAddressOn_NeverFinds(b, cs, emailAddress, fail) ==
    {[val |-> Nil, err |-> ErrNone]}

\* part_010:55-62 / 174-181 / 318-338 FindCustomerByEmailAddress.
FindCustomerByEmailAddressOn(b, cs, emailAddress, fail) ==
    LET matches == {cs[i] : i \in {j \in Stored(cs) : cs[j].Email = emailAddress}}
    IN IF b = "sqlite" THEN QueryRow(matches, fail) ELSE MapFind(matches)

FindCustomerByEmailAddress(emailAddress, fail) ==
    FindCustomerByEmailAddressOn(backend, customers, emailAddress, fail)

\* part_010:69-78 / 189-198 / 358-382 GetLicense.
GetLicenseOn(b, ls, id, fail) ==
    IF b = "sqlite"
    THEN QueryRow({ls[i] : i \in {j \in Stored(ls) : j = id}}, fail)
    ELSE {MapLookup(ls, id)}

GetLicense(id, fail) == GetLicenseOn(backend, licenses, id, fail)

\* part_010:80-90 / 200-210 / 384-408 FindLicenseByKey.
FindLicenseByKeyOn(b, ls, key, fail) ==
    LET matches == {ls[i] : i \in {j \in Stored(ls) : ls[j].Key = key}}
    IN IF b = "sqlite" THEN QueryRow(matches, fail) ELSE MapFind(matches)

FindLicenseByKey(key, fail) == FindLicenseByKeyOn(backend, licenses, key, fail)

\* part_010:92-106 / 212-226 / 410-451 FindLicensesByCustomer: the licenses
\* found (the order of the list is the map's or the table's), or the query's
\* error.
FindLicensesByCustomerOn(b, ls, customerID, fail) ==
    LET matches == {ls[i] : i \in {j \in Stored(ls) : ls[j].CustomerID = customerID}}
    IN IF b = "sqlite" /\ fail
       THEN {[val |-> {}, err |-> ErrDriver]}
       ELSE {[val |-> matches, err |-> ErrNone]}

FindLicensesByCustomer(customerID, fail) ==
    FindLicensesByCustomerOn(backend, licenses, customerID, fail)

\* INSERT OR REPLACE (part_010:341, 454): the rows that conflict with the new
\* row on the primary key or on the UNIQUE column are deleted, then the row
\* is inserted.
ReplaceInto(table, row, conflicts) ==
    [id \in DOMAIN table |->
        IF id = row.ID THEN row ELSE IF id \in conflicts THEN Nil ELSE table[id]]

\* part_010:64-67 / 183-187 / 340-356 SaveCustomer: the error and the
\* customers afterwards.
SaveCustomerOn(b, cs, ls, c, fail) ==
    IF b = "sqlite"
    THEN LET conflicts == {id \in Stored(cs) : id = c.ID \/ cs[id].Email = c.Email}
             orphans == \E id \in conflicts \ {c.ID}, l \in Stored(ls) :
                            ls[l].CustomerID = id
         IN IF fail THEN [err |-> ErrDriver, customers |-> cs]
            ELSE IF ForeignKeysOn /\ orphans
            THEN [err |-> ErrForeignKey, customers |-> cs]
            ELSE [err |-> ErrNone, customers |-> ReplaceInto(cs, CustomerRow(c), conflicts)]
    ELSE [err |-> ErrNone, customers |-> [cs EXCEPT ![c.ID] = c]]

SaveCustomer(cs, ls, c, fail) == SaveCustomerOn(backend, cs, ls, c, fail)

\* Mutant of CustomerExists: the check of SaveLicense left out.
CustomerExists_Unchecked(cs, id) == TRUE

\* part_010:114-117 / 234-237: _, exists := m.Data[license.CustomerID]
CustomerExists(cs, id) == cs[id] # Nil

\* part_010:108-122 / 228-243 / 453-474 SaveLicense: the error and the
\* licenses afterwards.
SaveLicenseOn(b, cs, ls, l, fail) ==
    IF b = "sqlite"
    THEN LET conflicts == {id \in Stored(ls) : id = l.ID \/ ls[id].Key = l.Key}
         IN IF fail THEN [err |-> ErrDriver, licenses |-> ls]
            ELSE IF ForeignKeysOn /\ cs[l.CustomerID] = Nil
            THEN [err |-> ErrForeignKey, licenses |-> ls]
            ELSE [err |-> ErrNone, licenses |-> ReplaceInto(ls, l, conflicts)]
    ELSE IF ~CustomerExists(cs, l.CustomerID)
         THEN [err |-> ErrCustomerNotFound, licenses |-> ls]
         ELSE [err |-> ErrNone, licenses |-> [ls EXCEPT ![l.ID] = l]]

SaveLicense(cs, ls, l, fail) == SaveLicenseOn(backend, cs, ls, l, fail)

\* A driver error can only come from the SQLite backend.
Fails == IF backend = "sqlite" THEN BOOLEAN ELSE {FALSE}

\* uuid.NewRandom (stripe.go:358, 383): an ID no stored entity has.
FreshCustIDs(cs) == CustIDs \ Stored(cs)
FreshLicIDs(ls) == LicIDs \ Stored(ls)

\* stripe.go:334-373 createCustomer
CreateCustomer(session, id, now) ==
    [ID |-> id, Email |-> session.email, Name |-> session.name,
     Country |-> session.country, StripeCustomerID |-> session.stripeCustomer,
     CreatedAt |-> now, UpdatedAt |-> now]

\* Mutant of CreateLicense: the license is created suspended.
CreateLicense_Suspended(customer, session, id, key, now) ==
    [ID |-> id, Key |-> key, CustomerID |-> customer.ID,
     ProductID |-> session.productID, Version |-> session.licenseVersion,
     Status |-> "suspended", StripeSessionID |-> session.id,
     CreatedAt |-> now, UpdatedAt |-> now]

\* stripe.go:375-396 createLicese; key is what generateLicenseKey returned
\* (stripe.go:398-400: "AFP-" and 8 hex digits of a random UUID, not checked
\* against the stored keys).
CreateLicense(customer, session, id, key, now) ==
    [ID |-> id, Key |-> key, CustomerID |-> customer.ID,
     ProductID |-> session.productID, Version |-> session.licenseVersion,
     Status |-> "active", StripeSessionID |-> session.id,
     CreatedAt |-> now, UpdatedAt |-> now]

\* --------------------------------------------------- storage: direct callers

NoCall == [op |-> "none", id |-> "", ent |-> Nil, val |-> Nil, list |-> {},
           err |-> ErrNone, fail |-> FALSE, at |-> ""]

\* part_010:127-134, 249-266 and the MemoryStorage literal (testutil.go:19-25):
\* a new backend; only a FileStorage starts with what its file holds.
InitStorage ==
    /\ backend \in Backends
    /\ fileData \in (IF backend = "file" THEN FileContents ELSE {<<>>})
    /\ customers = (IF backend = "file" THEN LoadFromFile(fileData)
                    ELSE [id \in CustIDs |-> Nil])
    /\ licenses = [id \in LicIDs |-> Nil]
    /\ last = NoCall
    /\ ppc = [r \in Reqs |-> "idle"]
    /\ pev = [r \in Reqs |-> Nil]
    /\ pcust = [r \in Reqs |-> Nil]
    /\ pout = <<>>

\* An empty MemoryStorage that no action touches.
StorageUnused ==
    /\ backend = "memory"
    /\ fileData = <<>>
    /\ customers = [id \in CustIDs |-> Nil]
    /\ licenses = [id \in LicIDs |-> Nil]
    /\ last = NoCall
    /\ ppc = [r \in Reqs |-> "idle"]
    /\ pev = [r \in Reqs |-> Nil]
    /\ pcust = [r \in Reqs |-> Nil]
    /\ pout = <<>>

\* Mutant of FileAfterSave: the save is written back to the file.
FileAfterSave_WritesBack(data, entity) ==
    IF backend = "file" THEN Append(data, entity) ELSE data

\* part_010:183-187, 228-243: what the file at filepath holds after
\* FileStorage.SaveCustomer or SaveLicense saved entity. Both end in
\* "TODO: Write back to file"; nothing in FileStorage opens the file for
\* writing, and the other backends have no such file.
FileAfterSave(data, entity) == data

\* part_010:127-134 NewFileStorage called again with the same filepath while
\* the file is readable: a new instance with the customers of the file and no
\* licenses. last.list keeps what the instance it replaces held.
Reopen ==
    /\ backend = "file"
    /\ customers' = LoadFromFile(fileData)
    /\ licenses' = [id \in LicIDs |-> Nil]
    /\ last' = [NoCall EXCEPT !.op = "NewFileStorage",
                   !.list = {customers[id] : id \in Stored(customers)}
                            \cup {licenses[id] : id \in Stored(licenses)}]
    /\ UNCHANGED <<backend, fileData, ppc, pev, pcust, pout>>
    /\ UNCHANGED <<rlVars, xVars>>

\* Storage.SaveCustomer called with customer c.
CallSaveCustomer(c) ==
    \E fail \in Fails :
        LET r == SaveCustomer(customers, licenses, c, fail) IN
            /\ customers' = r.customers
            /\ last' = [NoCall EXCEPT !.op = "SaveCustomer", !.id = c.ID, !.ent = c,
                                      !.err = r.err, !.fail = fail]
            /\ fileData' = FileAfterSave(fileData, c)
            /\ UNCHANGED <<backend, licenses, ppc, pev, pcust, pout>>
            /\ UNCHANGED <<rlVars, xVars>>

\* Storage.SaveLicense called with license l.
CallSaveLicense(l) ==
    \E fail \in Fails :
        LET r == SaveLicense(customers, licenses, l, fail) IN
            /\ licenses' = r.licenses
            /\ last' = [NoCall EXCEPT !.op = "SaveLicense", !.id = l.ID, !.ent = l,
                                      !.err = r.err, !.fail = fail]
            /\ fileData' = FileAfterSave(fileData, l)
            /\ UNCHANGED <<backend, customers, ppc, pev, pcust, pout>>
            /\ UNCHANGED <<rlVars, xVars>>

\* A read of the Storage interface: op with argument id returned r.
ReadCall(op, id, fail, r) ==
    /\ last' = [NoCall EXCEPT !.op = op, !.id = id, !.val = r.val, !.err = r.err,
                              !.fail = fail]
    /\ UNCHANGED <<backend, fileData, customers, licenses, ppc, pev, pcust, pout>>
    /\ UNCHANGED <<rlVars, xVars>>

CallGetCustomer(id) ==
    \E fail \in Fails : \E r \in GetCustomer(id, fail) :
        ReadCall("GetCustomer", id, fail, r)

CallFindCustomerByEmailAddress(emailAddress) ==
    \E fail \in Fails : \E r \in FindCustomerByEmailAddress(emailAddress, fail) :
        ReadCall("FindCustomerByEmailAddress", emailAddress, fail, r)

CallGetLicense(id) ==
    \E fail \in Fails : \E r \in GetLicense(id, fail) :
        ReadCall("GetLicense", id, fail, r)

CallFindLicenseByKey(key) ==
    \E fail \in Fails : \E r \in FindLicenseByKey(key, fail) :
        ReadCall("FindLicenseByKey", key, fail, r)

CallFindLicensesByCustomer(customerID) ==
    \E fail \in Fails : \E r \in FindLicensesByCustomer(customerID, fail) :
        /\ last' = [NoCall EXCEPT !.op = "FindLicensesByCustomer", !.id = customerID,
                                  !.list = r.val, !.err = r.err, !.fail = fail]
        /\ UNCHANGED <<backend, fileData, customers, licenses, ppc, pev, pcust, pout>>
        /\ UNCHANGED <<rlVars, xVars>>

\* ------------------------------------------------------ provisioning: code

\* Mutant of FindOrCreateCustomer: a customer that is found is brought up to
\* date with the event and saved.
FindOrCreateCustomer_Updates(session, found, id, now, fail) ==
    IF found.err # ErrNone
    THEN [err |-> found.err, customer |-> Nil, customers |-> customers]
    ELSE IF found.val # Nil
    THEN LET c == [found.val EXCEPT !.Name = session.name,
                                    !.StripeCustomerID = session.stripeCustomer,
                                    !.UpdatedAt = now]
         IN [err |-> ErrNone, customer |-> c,
             customers |-> [customers EXCEPT ![c.ID] = c]]
    ELSE LET c == CreateCustomer(session, id, now)
             s == SaveCustomer(customers, licenses, c, fail)
         IN IF s.err # ErrNone
            THEN [err |-> s.err, customer |-> Nil, customers |-> s.customers]
            ELSE [err |-> ErrNone, customer |-> c, customers |-> s.customers]

\* stripe.go:286-332 findOrCreateCustomer, given what the lookup returned
\* and the ID and time createCustomer draws: the error, the customer and the
\* customers afterwards.
FindOrCreateCustomer(session, found, id, now, fail) ==
    IF found.err # ErrNone
    THEN [err |-> found.err, customer |-> Nil, customers |-> customers]
    ELSE IF found.val # Nil
    THEN [err |-> ErrNone, customer |-> found.val, customers |-> customers]
    ELSE LET c == CreateCustomer(session, id, now)
             s == SaveCustomer(customers, licenses, c, fail)
         IN IF s.err # ErrNone
            THEN [err |-> s.err, customer |-> Nil, customers |-> s.customers]
            ELSE [err |-> ErrNone, customer |-> c, customers |-> s.customers]

\* Mutant of CreateLicensedUser: the customer saved for the event is taken
\* back when its license cannot be saved.
CreateLicensedUser_RollsBack(session) ==
    \E f1 \in Fails : \E found \in FindCustomerByEmailAddress(session.email, f1) :
    \E cid \in (IF found.err = ErrNone /\ found.val = Nil
                THEN FreshCustIDs(customers) ELSE {"unused"}),
       f2 \in (IF found.err = ErrNone /\ found.val = Nil THEN Fails ELSE {FALSE}),
       lid \in FreshLicIDs(licenses) :
        LET fc == FindOrCreateCustomer(session, found, cid, clock, f2) IN
            IF fc.err # ErrNone
            THEN /\ customers' = fc.customers
                 /\ licenses' = licenses
                 /\ last' = [NoCall EXCEPT !.op = "Provision", !.id = session.email,
                                           !.err = fc.err, !.fail = f1 \/ f2,
                                           !.at = "failed to find/create customer"]
            ELSE \E f3 \in Fails, key \in LicKeys :
                 LET lic == CreateLicense(fc.customer, session, lid, key, clock)
                     sl == SaveLicense(fc.customers, licenses, lic, f3)
                 IN /\ customers' = (IF sl.err # ErrNone THEN customers ELSE fc.customers)
                    /\ licenses' = sl.licenses
                    /\ last' = [NoCall EXCEPT
                                  !.op = "Provision", !.id = session.email,
                                  !.ent = IF sl.err # ErrNone THEN Nil ELSE lic,
                                  !.val = IF sl.err # ErrNone THEN Nil ELSE fc.customer,
                                  !.err = sl.err, !.fail = f1 \/ f2 \/ f3,
                                  !.at = IF sl.err # ErrNone
                                         THEN "failed to save license" ELSE ""]

\* stripe.go:239-284 createLicensedUser, run without interruption (while no
\* other request uses the storage): what it does to the storage, with what
\* it returned (license, customer, error) recorded in last: in last.at the
\* text the error is wrapped in (stripe.go:250, 275), and in last.fail
\* whether one of its Storage calls met a driver failure.
CreateLicensedUser(session) ==
    \E f1 \in Fails : \E found \in FindCustomerByEmailAddress(session.email, f1) :
    \E cid \in (IF found.err = ErrNone /\ found.val = Nil
                THEN FreshCustIDs(customers) ELSE {"unused"}),
       f2 \in (IF found.err = ErrNone /\ found.val = Nil THEN Fails ELSE {FALSE}),
       lid \in FreshLicIDs(licenses) :
        LET fc == FindOrCreateCustomer(session, found, cid, clock, f2) IN
            IF fc.err # ErrNone
            THEN /\ customers' = fc.customers
                 /\ licenses' = licenses
                 /\ last' = [NoCall EXCEPT !.op = "Provision", !.id = session.email,
                                           !.err = fc.err, !.fail = f1 \/ f2,
                                           !.at = "failed to find/create customer"]
            ELSE \E f3 \in Fails, key \in LicKeys :
                 LET lic == CreateLicense(fc.customer, session, lid, key, clock)
                     sl == SaveLicense(fc.customers, licenses, lic, f3)
                 IN /\ customers' = fc.customers
                    /\ licenses' = sl.licenses
                    /\ last' = [NoCall EXCEPT
                                  !.op = "Provision", !.id = session.email,
                                  !.ent = IF sl.err # ErrNone THEN Nil ELSE lic,
                                  !.val = IF sl.err # ErrNone THEN Nil ELSE fc.customer,
                                  !.err = sl.err, !.fail = f1 \/ f2 \/ f3,
                                  !.at = IF sl.err # ErrNone
                                         THEN "failed to save license" ELSE ""]

\* stripe.go:136-237 handleCheckoutComplete called for a purchase event. The
\* e-mail of stripe.go:219-234 is sent afterwards and its error is only logged.
HandleCheckoutComplete(session) ==
    /\ CreateLicensedUser(session)
    /\ UNCHANGED <<backend, fileData, ppc, pev, pcust, pout>>
    /\ UNCHANGED <<rlVars, xVars>>

\* ------------------------------------- provisioning: concurrent requests

\* Requests being provisioned, and what is unchanged by every step of one.
InFlight == {r \in Reqs : ppc[r] # "idle"}

\* The request returns: its locals are gone, its outcome is recorded.
Return(r, outcome) ==
    /\ pout' = Append(pout, outcome)
    /\ ppc' = [ppc EXCEPT ![r] = "idle"]
    /\ pev' = [pev EXCEPT ![r] = Nil]
    /\ pcust' = [pcust EXCEPT ![r] = Nil]

Outcome(session, err, customerID, licenseID, mailed) ==
    [email |-> session.email, session |-> session.id, err |-> err,
     customerID |-> customerID, licenseID |-> licenseID, mailed |-> mailed]

\* stripe.go:91-108, 136-168: a checkout.session.completed event arrives and
\* its request enters createLicensedUser.
P_Start(r, session) ==
    /\ ppc[r] = "idle"
    /\ Len(pout) + Cardinality(InFlight) < MaxProvisions
    /\ ppc' = [ppc EXCEPT ![r] = "find"]
    /\ pev' = [pev EXCEPT ![r] = session]
    /\ UNCHANGED <<backend, fileData, customers, licenses, last, pcust, pout>>
    /\ UNCHANGED <<rlVars, xVars>>

\* stripe.go:292-307 the lookup by e-mail and the branch on its result.
P_Find(r) ==
    /\ ppc[r] = "find"
    /\ \E fail \in Fails : \E found \in FindCustomerByEmailAddress(pev[r].email, fail) :
        IF found.err # ErrNone
        THEN Return(r, Outcome(pev[r], found.err, "", "", FALSE))
        ELSE /\ pcust' = [pcust EXCEPT ![r] = found.val]
             /\ ppc' = [ppc EXCEPT ![r] = IF found.val # Nil THEN "license" ELSE "create"]
             /\ UNCHANGED <<pev, pout>>
    /\ UNCHANGED <<backend, fileData, customers, licenses, last>>
    /\ UNCHANGED <<rlVars, xVars>>

\* stripe.go:314-331 createCustomer and SaveCustomer.
P_Create(r) ==
    /\ ppc[r] = "create"
    /\ \E fail \in Fails, cid \in FreshCustIDs(customers) :
        LET c == CreateCustomer(pev[r], cid, clock)
            s == SaveCustomer(customers, licenses, c, fail)
        IN /\ customers' = s.customers
           /\ IF s.err # ErrNone
              THEN Return(r, Outcome(pev[r], s.err, "", "", FALSE))
              ELSE /\ pcust' = [pcust EXCEPT ![r] = c]
                   /\ ppc' = [ppc EXCEPT ![r] = "license"]
                   /\ UNCHANGED <<pev, pout>>
    /\ UNCHANGED <<backend, fileData, licenses, last>>
    /\ UNCHANGED <<rlVars, xVars>>

\* stripe.go:260-283 createLicese and SaveLicense, then stripe.go:177-236 the
\* e-mail, whose failure is logged and not returned.
P_License(r) ==
    /\ ppc[r] = "license"
    /\ \E fail \in Fails, lid \in FreshLicIDs(licenses), key \in LicKeys, mailed \in BOOLEAN :
        LET lic == CreateLicense(pcust[r], pev[r], lid, key, clock)
            s == SaveLicense(customers, licenses, lic, fail)
        IN /\ licenses' = s.licenses
           /\ IF s.err # ErrNone
              THEN Return(r, Outcome(pev[r], s.err, "", "", FALSE))
              ELSE Return(r, Outcome(pev[r], ErrNone, pcust[r].ID, lid, mailed))
    /\ UNCHANGED <<backend, fileData, customers, last>>
    /\ UNCHANGED <<rlVars, xVars>>

\* ------------------------------------------- storage: backends side by side

\* A backend with nothing stored, and the answer before any call.
EmptyStore == [customers |-> [id \in CustIDs |-> Nil], licenses |-> [id \in LicIDs |-> Nil]]
NoAnswer == [op |-> "none", val |-> Nil, list |-> {}, err |-> ErrNone]

\* storage_test.go:474-505: a new MemoryStorage, a FileStorage on a new file
\* and a SQLiteStorage on a new database.
InitBackends ==
    /\ stores = [b \in Backends |-> EmptyStore]
    /\ answers = [b \in Backends |-> NoAnswer]

\* The licenses the compatibility test saves (storage_test.go:25-37: Status
\* is StatusActive).
ActiveLicenseInputs == {l \in LicenseInputs : l.Status = "active"}

\* What a backend returned to a call.
Answer(op, val, list, err) == [op |-> op, val |-> val, list |-> list, err |-> err]

\* The rest of the state while the three backends are called.
OnlyBackends == UNCHANGED <<rlVars, stVars, msVars, vlVars, whVars, srvVars>>

\* SaveCustomer(c) called on each backend (no driver failure).
AllSaveCustomer(c) ==
    LET r == [b \in Backends |->
                 SaveCustomerOn(b, stores[b].customers, stores[b].licenses, c, FALSE)]
    IN /\ stores' = [b \in Backends |-> [stores[b] EXCEPT !.customers = r[b].customers]]
       /\ answers' = [b \in Backends |-> Answer("SaveCustomer", Nil, {}, r[b].err)]
       /\ OnlyBackends

\* SaveLicense(l) called on each backend.
AllSaveLicense(l) ==
    LET r == [b \in Backends |->
                 SaveLicenseOn(b, stores[b].customers, stores[b].licenses, l, FALSE)]
    IN /\ stores' = [b \in Backends |-> [stores[b] EXCEPT !.licenses = r[b].licenses]]
       /\ answers' = [b \in Backends |-> Answer("SaveLicense", Nil, {}, r[b].err)]
       /\ OnlyBackends

\* A read called on each backend: possible[b] is what backend b may return.
AllRead(op, possible) ==
    /\ \E rm \in possible["memory"], rf \in possible["file"], rs \in possible["sqlite"] :
           LET r == [b \in Backends |->
                        IF b = "memory" THEN rm ELSE IF b = "file" THEN rf ELSE rs]
           IN answers' = [b \in Backends |-> Answer(op, r[b].val, {}, r[b].err)]
    /\ UNCHANGED stores
    /\ OnlyBackends

AllGetCustomer(id) ==
    AllRead("GetCustomer",
            [b \in Backends |-> GetCustomerOn(b, stores[b].customers, id, FALSE)])

AllFindCustomerByEmailAddress(emailAddress) ==
    AllRead("FindCustomerByEmailAddress",
            [b \in Backends |->
                FindCustomerByEmailAddressOn(b, stores[b].customers, emailAddress, FALSE)])

AllGetLicense(id) ==
    AllRead("GetLicense",
            [b \in Backends |-> GetLicenseOn(b, stores[b].licenses, id, FALSE)])

AllFindLicenseByKey(key) ==
    AllRead("FindLicenseByKey",
            [b \in Backends |-> FindLicenseByKeyOn(b, stores[b].licenses, key, FALSE)])

AllFindLicensesByCustomer(customerID) ==
    /\ answers' = [b \in Backends |->
           LET r == CHOOSE x \in FindLicensesByCustomerOn(b, stores[b].licenses,
                                                          customerID, FALSE) : TRUE
           IN Answer("FindLicensesByCustomer", Nil, r.val, r.err)]
    /\ UNCHANGED stores
    /\ OnlyBackends

\* -------------------------------------- storage: MemoryStorage, concurrent

\* The calls goroutines make on the MemoryStorage.
NoOp == [name |-> "none", ent |-> Nil, id |-> ""]
MemoryOps ==
    {[name |-> "SaveCustomer", ent |-> c, id |-> c.ID] : c \in CustomerInputs}
    \cup {[name |-> "SaveLicense", ent |-> l, id |-> l.ID] : l \in ActiveLicenseInputs}
    \cup {[name |-> "GetCustomer", ent |-> Nil, id |-> id] : id \in CustIDs}
    \cup {[name |-> "FindLicenseByKey", ent |-> Nil, id |-> k] : k \in LicKeys}

\* part_010:64-67, 108-122: the methods that assign to a map.
WritesMap(op) == op.name \in {"SaveCustomer", "SaveLicense"}

\* No goroutine is in a method of the MemoryStorage.
InitMemoryCallers ==
    /\ mpc = [r \in Reqs |-> "idle"]
    /\ mop = [r \in Reqs |-> NoOp]
    /\ fatal = FALSE

Inside == {r \in Reqs : mpc[r] = "inside"}

\* part_010:31-34: MemoryStorage holds the two maps and no mutex, so a
\* goroutine enters a method whatever the other goroutines are doing.
M_Enter(r, op) ==
    /\ ~fatal
    /\ mpc[r] = "idle"
    /\ mpc' = [mpc EXCEPT ![r] = "inside"]
    /\ mop' = [mop EXCEPT ![r] = op]
    /\ UNCHANGED <<fatal, rlVars, stVars, eqVars, vlVars, whVars, srvVars>>

\* The method's last access to the maps and its return (part_010:47-122).
M_Leave(r) ==
    /\ ~fatal
    /\ mpc[r] = "inside"
    /\ customers' = (IF mop[r].name = "SaveCustomer"
                     THEN SaveCustomerOn("memory", customers, licenses, mop[r].ent, FALSE).customers
                     ELSE customers)
    /\ licenses' = (IF mop[r].name = "SaveLicense"
                    THEN SaveLicenseOn("memory", customers, licenses, mop[r].ent, FALSE).licenses
                    ELSE licenses)
    /\ mpc' = [mpc EXCEPT ![r] = "idle"]
    /\ mop' = [mop EXCEPT ![r] = NoOp]
    /\ UNCHANGED <<backend, fileData, last, ppc, pev, pcust, pout>>
    /\ UNCHANGED <<fatal, rlVars, eqVars, vlVars, whVars, srvVars>>

\* Two goroutines use the maps at once and one of them writes: a data race,
\* which the Go runtime may detect ("fatal error: concurrent map writes",
\* "concurrent map read and map write") and stop the process.
M_Fatal ==
    /\ ~fatal
    /\ \E r1, r2 \in Inside : r1 # r2 /\ WritesMap(mop[r1])
    /\ fatal' = TRUE
    /\ UNCHANGED <<mpc, mop, rlVars, stVars, eqVars, vlVars, whVars, srvVars>>

\* --------------------------------------------------- validation: strings

\* The characters of the strings requests and licenses carry.
Chars(str) ==
    CASE str = "" -> <<>>
      [] str = "   " -> <<" ", " ", " ">>
      [] str = "AFP-1" -> <<"A", "F", "P", "-", "1">>
      [] str = "AFP-2" -> <<"A", "F", "P", "-", "2">>
      [] str = "AFP-9" -> <<"A", "F", "P", "-", "9">>
      [] str = "1.0.0" -> <<"1", ".", "0", ".", "0">>
      [] str = "1.9.9" -> <<"1", ".", "9", ".", "9">>
      [] str = "2.0.0" -> <<"2", ".", "0", ".", "0">>
      [] str = "-1.0.0" -> <<"-", "1", ".", "0", ".", "0">>
      [] str = "invalid" -> <<"i", "n", "v", "a", "l", "i", "d">>

WhiteSpace == {" ", "\t", "\n", "\r"}

\* strings.TrimSpace: the characters without leading and trailing white space.
RECURSIVE TrimLeft(_)
TrimLeft(cs) ==
    IF cs # <<>> /\ Head(cs) \in WhiteSpace THEN TrimLeft(Tail(cs)) ELSE cs

RECURSIVE TrimRight(_)
TrimRight(cs) ==
    IF cs # <<>> /\ cs[Len(cs)] \in WhiteSpace
    THEN TrimRight(SubSeq(cs, 1, Len(cs) - 1)) ELSE cs

TrimSpace(cs) == TrimRight(TrimLeft(cs))

\* strings.Split(version, ".")[0]: the characters before the first ".".
RECURSIVE FirstPart(_)
FirstPart(cs) ==
    IF cs = <<>> \/ Head(cs) = "." THEN <<>> ELSE <<Head(cs)>> \o FirstPart(Tail(cs))

Digit(ch) ==
    CASE ch = "0" -> 0 [] ch = "1" -> 1 [] ch = "2" -> 2 [] ch = "3" -> 3
      [] ch = "4" -> 4 [] ch = "5" -> 5 [] ch = "6" -> 6 [] ch = "7" -> 7
      [] ch = "8" -> 8 [] ch = "9" -> 9 [] OTHER -> -1

RECURSIVE DigitsValue(_, _)
DigitsValue(cs, acc) ==
    IF cs = <<>> THEN acc ELSE DigitsValue(Tail(cs), 10 * acc + Digit(Head(cs)))

\* strconv.Atoi: an optional sign and one or more decimal digits.
Atoi(cs) ==
    LET signed == cs # <<>> /\ Head(cs) \in {"+", "-"}
        digits == IF signed THEN Tail(cs) ELSE cs
    IN IF digits = <<>> \/ \E i \in 1..Len(digits) : Digit(digits[i]) = -1
       THEN [val |-> 0, err |-> "invalid syntax"]
       ELSE [val |-> IF signed /\ Head(cs) = "-" THEN 0 - DigitsValue(digits, 0)
                     ELSE DigitsValue(digits, 0),
             err |-> ErrNone]

\* part_003:24-44 ExtractMajorVersion
ExtractMajorVersion(version) ==
    IF version = "" THEN [val |-> 0, err |-> "empty version string"]
    ELSE LET major == Atoi(FirstPart(Chars(version)))
         IN IF major.err # ErrNone THEN [val |-> 0, err |-> "invalid major version"]
            ELSE IF major.val < 0
            THEN [val |-> 0, err |-> "major version cannot be negative"]
            ELSE [val |-> major.val, err |-> ErrNone]

\* part_003:10-22 IsCompatible
IsCompatible(licenseVersion, requestedVersion) ==
    LET licenseMajor == ExtractMajorVersion(licenseVersion)
        requestedMajor == ExtractMajorVersion(requestedVersion)
    IN IF licenseMajor.err # ErrNone
       THEN [val |-> FALSE, err |-> "invalid license version"]
       ELSE IF requestedMajor.err # ErrNone
       THEN [val |-> FALSE, err |-> "invalid app version"]
       ELSE [val |-> licenseMajor.val = requestedMajor.val, err |-> ErrNone]

\* ------------------------------------------------------ validation: code

\* part_013:5-9 and the status strings no constant names.
StatusActive == "active"
AllStatuses == {"active", "suspended", "expired", "", "revoked"}

\* A field the JSON object of a request does not have.
Absent == "(absent)"

\* Request bodies: text that is not JSON, the JSON null, and objects with or
\* without license_key and app_version.
MalformedBody == [json |-> "malformed", license_key |-> Absent, app_version |-> Absent]
NullBody == [json |-> "null", license_key |-> Absent, app_version |-> Absent]
RequestKeys == {"AFP-1", "AFP-9"}
BlankKeys == {Absent, "", "   "}
AppVersions == {Absent, "", "1.0.0", "1.9.9", "2.0.0", "invalid", "-1.0.0"}
Bodies ==
    {MalformedBody, NullBody}
    \cup [json : {"object"}, license_key : BlankKeys, app_version : {"1.0.0"}]
    \cup [json : {"object"}, license_key : RequestKeys, app_version : AppVersions]

\* part_008:18-21 LicenseRequest, zero value.
ZeroRequest == [LicenseKey |-> "", AppVersion |-> ""]

\* part_008:46-52 json.NewDecoder(r.Body).Decode(&req): an error for text
\* that is not JSON; null and absent fields leave the zero values.
Decode(body) ==
    IF body.json = "malformed" THEN [err |-> "decode error", req |-> ZeroRequest]
    ELSE IF body.json = "null" THEN [err |-> ErrNone, req |-> ZeroRequest]
    ELSE [err |-> ErrNone,
          req |-> [LicenseKey |-> IF body.license_key = Absent THEN ""
                                  ELSE body.license_key,
                   AppVersion |-> IF body.app_version = Absent THEN ""
                                  ELSE body.app_version]]

\* Mutant of validate: the key compared with "" without trimming.
validate_NoTrim(req) ==
    IF req.LicenseKey = "" THEN "license_key required" ELSE ErrNone

\* part_008:129-135 LicenseRequest.validate
validate(req) ==
    IF TrimSpace(Chars(req.LicenseKey)) = <<>> THEN "license_key required" ELSE ErrNone

\* part_008:111-116: HMAC_SECRET, or the default secret when it is unset.
DefaultSecret == "auto-focus-hmac-secret-2025"
Secret == IF hmacSecret = "" THEN DefaultSecret ELSE hmacSecret

BoolText(b) == IF b THEN "true" ELSE "false"

\* part_008:119 fmt.Sprintf("%t|%s|%d", valid, message, timestamp)
Payload(valid, message, timestamp) ==
    BoolText(valid) \o "|" \o message \o "|" \o ToString(timestamp)

\* part_008:122-124: HMAC-SHA256 of the payload under the key, in base64.
\* The MAC of a text under a key is a value of its own for each text and key.
HMAC(key, text) == [mac |-> "HMAC-SHA256", key |-> key, text |-> text]
Base64(bytes) == [base64 |-> bytes]

\* part_008:109-127 generateHMACSignature
generateHMACSignature(valid, message, timestamp) ==
    Base64(HMAC(Secret, Payload(valid, message, timestamp)))

\* What the handler wrote: the status line and one of the two JSON bodies.
NoSignature == [none |-> TRUE]

\* part_008:137-145 writeErrorResponse
writeErrorResponse(status, message) ==
    [status |-> status, error |-> message, verdict |-> FALSE, valid |-> FALSE,
     message |-> "", timestamp |-> 0, signature |-> NoSignature, warned |-> FALSE]

\* Mutant of respondWithValidation: the signature made with a second reading
\* of the clock.
respondWithValidation_SecondClock(valid, message, now) ==
    [status |-> 200, error |-> "", verdict |-> TRUE, valid |-> valid,
     message |-> message, timestamp |-> now,
     signature |-> generateHMACSignature(valid, message, now + 1),
     warned |-> hmacSecret = ""]

\* part_008:89-107 respondWithValidation; now is time.Now().Unix(). No status
\* is written, so the response has status 200.
respondWithValidation(valid, message, now) ==
    [status |-> 200, error |-> "", verdict |-> TRUE, valid |-> valid,
     message |-> message, timestamp |-> now,
     signature |-> generateHMACSignature(valid, message, now),
     warned |-> hmacSecret = ""]

\* Mutant of LookupError: the error of the lookup dropped, as findLicenseCustomer
\* of handlers/license.go:84-90 did.
LookupError_Swallowed(found) == FALSE

\* part_008:64: if err != nil
LookupError(found) == found.err # ErrNone

\* Mutant of IsActive: only a suspended license is refused.
IsActive_NotSuspended(license) == license.Status # "suspended"

\* part_008:81: license.Status != models.StatusActive
IsActive(license) == license.Status = StatusActive

\* Mutant of Verdict: a key not found answered with an error status.
Verdict_NotFoundIs404(license, now) ==
    IF license = Nil THEN writeErrorResponse(404, "license not found")
    ELSE IF ~IsActive(license)
    THEN respondWithValidation(FALSE, "license not active", now)
    ELSE respondWithValidation(TRUE, "license valid", now)

\* Mutant of Verdict: the license version is examined before the status.
Verdict_VersionFirst(license, now) ==
    IF license = Nil THEN respondWithValidation(FALSE, "license not found", now)
    ELSE IF ExtractMajorVersion(license.Version).err # ErrNone
    THEN respondWithValidation(FALSE, "invalid version format", now)
    ELSE IF ~IsActive(license)
    THEN respondWithValidation(FALSE, "license not active", now)
    ELSE respondWithValidation(TRUE, "license valid", now)

\* part_008:72-86: the verdict on what the lookup found.
Verdict(license, now) ==
    IF license = Nil THEN respondWithValidation(FALSE, "license not found", now)
    ELSE IF ~IsActive(license)
    THEN respondWithValidation(FALSE, "license not active", now)
    ELSE respondWithValidation(TRUE, "license valid", now)

\* The request, the Storage calls made for it, what the lookup returned and
\* the response.
NoLookup == [val |-> Nil, err |-> ErrNone]
Exchange(method, body, calls, found, w) ==
    [method |-> method, body |-> body, req |-> Decode(body).req, calls |-> calls,
     found |-> found, status |-> w.status, error |-> w.error, verdict |-> w.verdict,
     valid |-> w.valid, message |-> w.message, timestamp |-> w.timestamp,
     signature |-> w.signature, warned |-> w.warned]

\* part_008:30-87 ValidateLicense, where found is what
\* s.Storage.FindLicenseByKey(ctx, req.LicenseKey) returns when it is called
\* and now the time of the response.
ValidateLicense(method, body, found, now) ==
    LET d == Decode(body) IN
    IF method # "POST"
    THEN Exchange(method, body, <<>>, NoLookup, writeErrorResponse(405, "only POST allowed"))
    ELSE IF d.err # ErrNone
    THEN Exchange(method, body, <<>>, NoLookup, writeErrorResponse(400, "empty body"))
    ELSE IF validate(d.req) # ErrNone
    THEN Exchange(method, body, <<>>, NoLookup, writeErrorResponse(400, "invalid license"))
    ELSE IF LookupError(found)
    THEN Exchange(method, body, <<"FindLicenseByKey">>, found,
                  writeErrorResponse(500, "something went wrong"))
    ELSE Exchange(method, body, <<"FindLicenseByKey">>, found, Verdict(found.val, now))

\* -------------------------------------------------- validation: requests

\* Before the first request: nothing was written.
NoExchange == Exchange("none", NullBody, <<>>, NoLookup, writeErrorResponse(0, ""))
\* The values HMAC_SECRET is deployed with: unset, or a secret.
Secrets == {"", "k1"}

InitValidation ==
    /\ hmacSecret \in Secrets
    /\ vresp = NoExchange

\* No validate request is made.
ValidationUnused ==
    /\ hmacSecret = ""
    /\ vresp = NoExchange

\* The customer and the licenses validate requests are made about
\* (part_007:17-62 createTestStorage; stripe_test.go:780-850 saves a license
\* of each status, 606-778 of several versions).
ValidatedCustomer ==
    [ID |-> "c1", Email |-> "a@x", Name |-> "Ann Lee", Country |-> "NO",
     StripeCustomerID |-> "cus_1", CreatedAt |-> 0, UpdatedAt |-> 0]
LicenseVersions == {"1.0.0", "2.0.0", "invalid", ""}
ValidatedLicenses ==
    {l \in [ID : {"l1"}, Key : {"AFP-1"}, CustomerID : {"c1"}, ProductID : {"prod_test"},
            Version : LicenseVersions, Status : AllStatuses,
            StripeSessionID : {"cs_test"}, CreatedAt : {0}, UpdatedAt : {0}] :
        l.Status \in {StatusActive, "suspended"} \/ l.Version = "1.0.0"}

\* The storage is given the customer.
V_SaveCustomer ==
    LET r == SaveCustomer(customers, licenses, ValidatedCustomer, FALSE) IN
        /\ customers' = r.customers
        /\ UNCHANGED <<backend, fileData, licenses, last, ppc, pev, pcust, pout>>
        /\ UNCHANGED <<rlVars, xVars>>

\* The storage is given a license, or the license under an ID is replaced by
\* one of another status or version.
V_SaveLicense(l) ==
    LET r == SaveLicense(customers, licenses, l, FALSE) IN
        /\ r.err = ErrNone
        /\ licenses' = r.licenses
        /\ UNCHANGED <<backend, fileData, customers, last, ppc, pev, pcust, pout>>
        /\ UNCHANGED <<rlVars, xVars>>

ValidateRequests ==
    {[method |-> "GET", body |-> NullBody]}
    \cup [method : {"POST"}, body : Bodies]

\* A request to /v1/licenses/validate is handled (part_008:30-87) at one of
\* the given times; in V_Validate time may have passed since the request
\* before.
V_ValidateAt(request, times) ==
    /\ \E fail \in Fails :
       \E found \in FindLicenseByKey(Decode(request.body).req.LicenseKey, fail) :
       \E now \in times :
           /\ clock' = now
           /\ vresp' = ValidateLicense(request.method, request.body, found, now)
    /\ UNCHANGED hmacSecret
    /\ UNCHANGED <<maxRequests, window, requests, mutex, pc, addr, nowv, wd, ret, log>>
    /\ UNCHANGED <<stVars, eqVars, msVars, whVars, srvVars>>

V_Validate(request) ==
    V_ValidateAt(request, {clock} \cup (IF clock < MaxTime THEN {clock + 1} ELSE {}))

\* ------------------------------------------------------------ webhook: code

\* The environment the service runs with: the variables Stripe reads
\* (stripe.go:30, 67, 69) and the environment setting (part_005:65-68,
\* part_009:51, 170); "" is an unset variable.
Envs ==
    [STRIPE_SECRET_KEY : {"", "sk_1"}, STRIPE_WEBHOOK_SECRET : {"", "whsec_1"},
     TEST_MODE : {"", "true"}, ENVIRONMENT : {"production", "staging"}]

\* The environment of the integration test (integration_test.go:46-48).
TestEnv ==
    [STRIPE_SECRET_KEY |-> "sk_1", STRIPE_WEBHOOK_SECRET |-> "whsec_1",
     TEST_MODE |-> "true", ENVIRONMENT |-> "staging"]

\* What a delivery carries besides its signature header: a body that cannot
\* be read, one that is not JSON, or an event with its type and its
\* data.object (a checkout session, or something that does not unmarshal
\* into one).
WebhookContents ==
    {[body |-> b, type |-> "", data |-> "", session |-> Nil] :
        b \in {"unreadable", "malformed"}}
    \cup {[body |-> "event", type |-> "checkout.session.completed",
           data |-> "session", session |-> s] : s \in Sessions}
    \cup {[body |-> "event", type |-> "checkout.session.completed",
           data |-> "malformed", session |-> Nil],
          [body |-> "event", type |-> "invoice.paid", data |-> "object", session |-> Nil]}

\* webhook.ComputeSignature: the HMAC of the payload under a secret.
ComputeSignature(secret, payload) == [mac |-> "HMAC-SHA256", key |-> secret, text |-> payload]

\* The Stripe-Signature header: absent, or a signature made with a secret.
NoHeader == [mac |-> "none", key |-> "", text |-> Nil]
SigningSecrets == {"whsec_1", "whsec_other"}
WebhookRequests ==
    UNION {{[content |-> c, header |-> h] :
               h \in {NoHeader} \cup {ComputeSignature(k, c) : k \in SigningSecrets}} :
           c \in WebhookContents}

\* Mutant of ConstructEvent: every header is accepted.
ConstructEvent_AcceptsAll(payload, header, secret) == ErrNone

\* stripe.go:78 webhook.ConstructEvent(payload, signatureHeader,
\* endpointSecret): an error unless the header carries the signature of this
\* payload under the endpoint secret.
ConstructEvent(payload, header, secret) ==
    IF header = ComputeSignature(secret, payload) THEN ErrNone
    ELSE "webhook had no valid signature"

\* stripe.go:66-89: what becomes of the signature check.
Verification(request) ==
    IF env.TEST_MODE = "true" THEN "skipped"
    ELSE IF env.STRIPE_WEBHOOK_SECRET = "" THEN "no secret"
    ELSE IF ConstructEvent(request.content, request.header,
                           env.STRIPE_WEBHOOK_SECRET) # ErrNone THEN "failed"
    ELSE "verified"

\* stripe.go:30-89: the status written before the event is dispatched, 0
\* when the handler goes on to the switch on event.Type.
StatusBeforeDispatch(request) ==
    IF env.STRIPE_SECRET_KEY = "" THEN 500
    ELSE IF request.content.body = "unreadable" THEN 503
    ELSE IF request.content.body = "malformed" THEN 400
    ELSE IF Verification(request) = "no secret" THEN 500
    ELSE IF Verification(request) = "failed" THEN 400
    ELSE 0

\* Mutant of CheckoutError: the error of createLicensedUser is logged and
\* not returned.
CheckoutError_Logged(userErr, mail) == ErrNone

\* Mutant of CheckoutError: a failed e-mail is returned as an error.
CheckoutError_MailFails(userErr, mail) ==
    IF userErr # ErrNone THEN userErr
    ELSE IF mail = "failed" THEN "email: send failed" ELSE ErrNone

\* stripe.go:170-236: what handleCheckoutComplete returns, given what
\* createLicensedUser returned and what became of the e-mail.
CheckoutError(userErr, mail) == userErr

\* The delivery, whether handleCheckoutComplete was called, what it
\* returned, what became of the e-mail, the status written and whether the
\* body {"received": "true"} was (stripe.go:128-129, written with the 200).
Delivery(request, status, handled, err, mail) ==
    [content |-> request.content, header |-> request.header, status |-> status,
     received |-> status = 200, handled |-> handled, err |-> err, mail |-> mail,
     verification |-> IF request.content.body = "event" /\ env.STRIPE_SECRET_KEY # ""
                      THEN Verification(request) ELSE "none"]

NoRequest == [content |-> [body |-> "none", type |-> "", data |-> "", session |-> Nil],
              header |-> NoHeader]
NoDelivery ==
    [content |-> NoRequest.content, header |-> NoHeader, status |-> 0,
     received |-> FALSE, handled |-> FALSE, err |-> ErrNone, mail |-> "none", verification |-> "none"]

\* Mutant of DefaultCase: an event type without a case is refused.
DefaultCase_Refuses(eventType) == 400

\* stripe.go:116-128: the default case of the switch on event.Type logs the
\* type; the handler goes on to write 200.
DefaultCase(eventType) == 200

\* stripe.go:21-134 Stripe, handling one delivery while no other request
\* uses the storage. email.Send (email.go:11-32) succeeds or fails.
StripeEffect(request) ==
    IF StatusBeforeDispatch(request) # 0
    THEN /\ wresp' = Delivery(request, StatusBeforeDispatch(request), FALSE, ErrNone, "none")
         /\ UNCHANGED <<customers, licenses, last>>
    ELSE IF request.content.type # "checkout.session.completed"
    THEN /\ wresp' = Delivery(request, DefaultCase(request.content.type), FALSE,
                              ErrNone, "none")
         /\ UNCHANGED <<customers, licenses, last>>
    ELSE IF request.content.data # "session"
    THEN /\ wresp' = Delivery(request, 400, FALSE, ErrNone, "none")
         /\ UNCHANGED <<customers, licenses, last>>
    ELSE /\ CreateLicensedUser(request.content.session)
         /\ \E mail \in (IF last'.err = ErrNone THEN {"sent", "failed"} ELSE {"none"}) :
                LET err == CheckoutError(last'.err, mail) IN
                    wresp' = Delivery(request, IF err # ErrNone THEN 500 ELSE 200,
                                      TRUE, err, mail)

Stripe(request) ==
    /\ StripeEffect(request)
    /\ UNCHANGED <<env, backend, fileData, ppc, pev, pcust, pout>>
    /\ UNCHANGED <<rlVars, eqVars, msVars, vlVars, srvVars>>

\* The service in any configuration, no delivery made yet.
InitWebhook ==
    /\ env \in Envs
    /\ wresp = NoDelivery

\* The webhook is not called.
WebhookUnused ==
    /\ env = TestEnv
    /\ wresp = NoDelivery

\* -------------------------------------------------------------- server: code

\* part_005:28 ratelimit.New(10, time.Minute), the clock counting minutes.
ServerLimit == 10
ServerWindow == 1

\* The most validate requests one remote address sends.
MaxServed == 11

\* part_005:31-34 the routes of the mux, and the methods requests use.
Paths == {"/v1/health", "/v1/licenses/validate", "/v1/webhooks/stripe"}
Methods == {"POST", "OPTIONS"}

\* The remote addresses requests come from (integration_test.go:405).
Clients == {"ip1"}

\* Mutant of Chained: only the validate route is behind the chain.
Chained_ValidateOnly(path) == path = "/v1/licenses/validate"

\* part_005:33-34: the routes registered behind
\* s.chain(s.withCORS, s.withLogging, s.withRateLimit); /v1/health (31) is
\* registered as http.HandlerFunc(s.Health) itself.
Chained(path) == path \in {"/v1/licenses/validate", "/v1/webhooks/stripe"}

\* What a middleware chain did with a request: whether Allow was called,
\* whether the request goes on to the handler, the limiter's map afterwards
\* and the status written (0: none).
Gated(consulted, pass, reqs, status) ==
    [consulted |-> consulted, pass |-> pass, reqs |-> reqs, status |-> status]

\* Mutant of withRateLimit: the result of Allow is ignored.
withRateLimit_PassesAll(k) == Gated(TRUE, TRUE, Allow(k).reqs, 0)

\* part_005:113-127 withRateLimit for a request from remote address k.
withRateLimit(k) ==
    IF ~Allow(k).ok THEN Gated(TRUE, FALSE, Allow(k).reqs, 429)
    ELSE Gated(TRUE, TRUE, Allow(k).reqs, 0)

\* Mutant of withCORS: the chain built in the order given, the last
\* middleware outermost, so that the limiter runs before the CORS layer.
withCORS_InsideLimiter(method, k) ==
    IF ~Allow(k).ok THEN Gated(TRUE, FALSE, Allow(k).reqs, 429)
    ELSE IF method = "OPTIONS" THEN Gated(TRUE, FALSE, Allow(k).reqs, 200)
    ELSE Gated(TRUE, TRUE, Allow(k).reqs, 0)

\* part_005:98-111 withCORS, then withLogging (129-150, which writes
\* nothing) and withRateLimit.
withCORS(method, k) ==
    IF method = "OPTIONS" THEN Gated(FALSE, FALSE, requests, 200)
    ELSE withRateLimit(k)

\* part_005:31-34, 88-96: what stands between the mux and the handler.
Gate(path, method, k) ==
    IF Chained(path) THEN withCORS(method, k) ELSE Gated(FALSE, TRUE, requests, 0)

\* The request, what the middleware did, the handler that ran ("none" when
\* none did), the Storage calls it made and the status of the response.
Served(path, method, k, g, handler, calls, status) ==
    [path |-> path, method |-> method, addr |-> k, consulted |-> g.consulted,
     allowed |-> g.pass, handler |-> handler, calls |-> calls, status |-> status]

NotServed ==
    Served("", "", "", Gated(FALSE, FALSE, requests, 0), "none", <<>>, 0)

\* The validate request of the rate-limit test (integration_test.go:391-396)
\* and a delivery of an event the webhook has no case for.
LimitTestBody == [json |-> "object", license_key |-> "AFP-9", app_version |-> "1.0.0"]
UnhandledDelivery ==
    [content |-> [body |-> "event", type |-> "invoice.paid", data |-> "object",
                  session |-> Nil],
     header |-> NoHeader]

\* part_005:46-84 Health: 503 when GetCustomer("health-check-test") returns
\* an error, else 200.
HealthStatus(fail) == IF fail THEN 503 ELSE 200

\* The handler registered for path runs (part_005:31-34).
Dispatch(path, method, k, g) ==
    CASE path = "/v1/licenses/validate" ->
            /\ \E fail \in Fails :
               \E found \in FindLicenseByKey(Decode(LimitTestBody).req.LicenseKey, fail) :
                   vresp' = ValidateLicense(method, LimitTestBody, found, clock)
            /\ hx' = Served(path, method, k, g, "ValidateLicense", vresp'.calls,
                            vresp'.status)
            /\ UNCHANGED <<wresp, customers, licenses, last>>
      [] path = "/v1/webhooks/stripe" ->
            /\ StripeEffect(UnhandledDelivery)
            /\ hx' = Served(path, method, k, g, "Stripe", <<>>, wresp'.status)
            /\ UNCHANGED vresp
      [] path = "/v1/health" ->
            /\ \E fail \in Fails :
                   hx' = Served(path, method, k, g, "Health", <<"GetCustomer">>,
                                HealthStatus(fail))
            /\ UNCHANGED <<vresp, wresp, customers, licenses, last>>

\* A request from remote address k arrives at the mux and is answered
\* (part_005:22-37), no other request being served meanwhile.
Serve(path, method, k) ==
    /\ path = "/v1/licenses/validate" /\ method # "OPTIONS" => seen[k] < MaxServed
    /\ LET g == Gate(path, method, k) IN
        /\ requests' = g.reqs
        /\ IF g.pass
           THEN Dispatch(path, method, k, g)
           ELSE /\ hx' = Served(path, method, k, g, "none", <<>>, g.status)
                /\ UNCHANGED <<vresp, wresp, customers, licenses, last>>
        /\ IF path = "/v1/licenses/validate" /\ method # "OPTIONS"
           THEN /\ seen' = [seen EXCEPT ![k] = seen[k] + 1]
                /\ passed' = [passed EXCEPT ![k] = passed[k] + (IF g.pass THEN 1 ELSE 0)]
           ELSE UNCHANGED <<seen, passed>>
        /\ mixed' = [mixed EXCEPT ![k] = mixed[k] \/ (path = "/v1/webhooks/stripe"
                                                      /\ method # "OPTIONS")]
    /\ UNCHANGED <<maxRequests, window, mutex, clock, pc, addr, nowv, wd, ret, log>>
    /\ UNCHANGED <<backend, fileData, ppc, pev, pcust, pout>>
    /\ UNCHANGED <<hmacSecret, env, eqVars, msVars>>

\* No request has arrived.
ServerUnused ==
    /\ hx = NotServed
    /\ seen = [k \in Keys |-> 0]
    /\ passed = [k \in Keys |-> 0]
    /\ mixed = [k \in Keys |-> FALSE]

\* part_005:22-37 NewHttpServer: the limiter the server creates.
ServerLimiter ==
    /\ NoCallers
    /\ maxRequests = ServerLimit
    /\ window = ServerWindow

\* ----------------------------------------------------------- specifications

NextRL ==
    \/ \E t \in Threads, k \in Keys : Call(t, k)
    \/ \E t \in Threads : Lock(t)
    \/ \E t \in Threads : ReadWindow(t)
    \/ \E t \in Threads : Decide(t)
    \/ \E t \in Threads : Unlock(t)
    \/ Tick

\* The limiter alone: the storage is an empty MemoryStorage nobody calls.
InitRL ==
    InitLimiter /\ StorageUnused /\ InitBackends /\ InitMemoryCallers /\ ValidationUnused /\ WebhookUnused /\ ServerUnused

SpecRL == InitRL /\ [][NextRL]_vars

\* The limiter the server creates (part_005:28), with no request in it.
LimiterUnused ==
    /\ InitLimiter
    /\ maxRequests = MaxLimit
    /\ window = MaxWindow

NextStore ==
    \/ \E c \in CustomerInputs : CallSaveCustomer(c)
    \/ \E l \in LicenseInputs : CallSaveLicense(l)
    \/ \E id \in CustIDs : CallGetCustomer(id)
    \/ \E e \in Emails : CallFindCustomerByEmailAddress(e)
    \/ \E id \in LicIDs : CallGetLicense(id)
    \/ \E k \in LicKeys : CallFindLicenseByKey(k)
    \/ \E id \in CustIDs : CallFindLicensesByCustomer(id)
    \/ \E s \in Sessions : HandleCheckoutComplete(s)

\* One caller at a time uses the Storage interface and provisions purchases.
InitStore ==
    InitStorage /\ LimiterUnused /\ InitBackends /\ InitMemoryCallers /\ ValidationUnused /\ WebhookUnused /\ ServerUnused

SpecStore == InitStore /\ [][NextStore]_vars

NextFile ==
    \/ \E c \in CustomerInputs : CallSaveCustomer(c)
    \/ \E l \in LicenseInputs : CallSaveLicense(l)
    \/ \E id \in CustIDs : CallGetCustomer(id)
    \/ \E id \in LicIDs : CallGetLicense(id)
    \/ Reopen

InitFile == InitStore /\ backend = "file"

\* One FileStorage after another on the same path.
SpecFile == InitFile /\ [][NextFile]_vars

NextProv ==
    \/ \E r \in Reqs, s \in Sessions : P_Start(r, s)
    \/ \E r \in Reqs : P_Find(r)
    \/ \E r \in Reqs : P_Create(r)
    \/ \E r \in Reqs : P_License(r)
    \/ Tick

\* Purchase events provisioned by concurrent requests.
SpecProv == InitStore /\ [][NextProv]_vars

NextBackends ==
    \/ \E c \in CustomerInputs : AllSaveCustomer(c)
    \/ \E l \in ActiveLicenseInputs : AllSaveLicense(l)
    \/ \E id \in CustIDs : AllGetCustomer(id)
    \/ \E e \in Emails : AllFindCustomerByEmailAddress(e)
    \/ \E id \in LicIDs : AllGetLicense(id)
    \/ \E k \in LicKeys : AllFindLicenseByKey(k)
    \/ \E id \in CustIDs : AllFindLicensesByCustomer(id)

\* The same sequence of Storage calls applied to three new backends.
InitBackendsOnly ==
    LimiterUnused /\ StorageUnused /\ InitBackends /\ InitMemoryCallers /\ ValidationUnused /\ WebhookUnused /\ ServerUnused

SpecBackends == InitBackendsOnly /\ [][NextBackends]_vars

NextMemory ==
    \/ \E r \in Reqs, op \in MemoryOps : M_Enter(r, op)
    \/ \E r \in Reqs : M_Leave(r)
    \/ M_Fatal

\* Goroutines calling one MemoryStorage, as the requests of a server do.
SpecMemory == InitBackendsOnly /\ [][NextMemory]_vars

NextValidate ==
    \/ V_SaveCustomer
    \/ \E l \in ValidatedLicenses : V_SaveLicense(l)
    \/ \E request \in ValidateRequests : V_Validate(request)

InitValidate ==
    InitStorage /\ LimiterUnused /\ InitBackends /\ InitMemoryCallers /\ InitValidation /\ WebhookUnused /\ ServerUnused

\* Validate requests handled one after the other, over a storage that is
\* given a customer and licenses.
SpecValidate == InitValidate /\ [][NextValidate]_vars

NextWebhook ==
    \E request \in WebhookRequests : Stripe(request)

InitWebhookOnly ==
    /\ InitStorage /\ backend \in {"memory", "sqlite"}
    /\ LimiterUnused /\ InitBackends /\ InitMemoryCallers /\ ValidationUnused
    /\ InitWebhook /\ ServerUnused

\* Deliveries to /v1/webhooks/stripe handled one after the other, by a
\* server holding a new MemoryStorage or SQLiteStorage.
SpecWebhook == InitWebhookOnly /\ [][NextWebhook]_vars

NextServer ==
    \/ \E path \in Paths, method \in Methods, k \in Clients : Serve(path, method, k)
    \/ Tick

InitServer ==
    /\ ServerLimiter /\ StorageUnused /\ InitBackends /\ InitMemoryCallers
    /\ ValidationUnused /\ WebhookUnused /\ ServerUnused

\* The server of NewHttpServer over a new MemoryStorage, its requests served
\* one after the other.
SpecServer == InitServer /\ [][NextServer]_vars

\* ---------------------------------------------------- rate limiter: claims

\* The decided calls for key k, in decision order.
CallsOf(k) == SelectSeq(log, LAMBDA e : e.key = k)

\* Number of calls for k admitted at or after time from.
AdmittedSince(k, from) ==
    Cardinality({i \in 1..Len(log) : log[i].key = k /\ log[i].ok /\ log[i].t >= from})

\* Number of calls for k decided at or after time from.
CallsSince(k, from) ==
    Cardinality({i \in 1..Len(log) : log[i].key = k /\ log[i].t >= from})

Min(a, b) == IF a <= b THEN a ELSE b

\* Thread t takes the step that decides its call.
DecideStep(t) == pc[t] = "read" /\ pc'[t] = "decided"

\* C1: with limit N > 0, no more than N calls for a key are admitted in the
\* key's current window (so every call made after N admissions, while
\* now - windowStart <= W, returns false), and no more than N of the calls made
\* within W of the key's first call are admitted.
C1_LimitPerWindow ==
    maxRequests > 0 =>
        \A k \in Keys :
            /\ requests[k] # Nil =>
                   AdmittedSince(k, requests[k].windowStart) <= maxRequests
            /\ LET es == CallsOf(k) IN
                   Len(es) > 0 =>
                       Cardinality({i \in 1..Len(es) :
                           es[i].ok /\ es[i].t - es[1].t <= window}) <= maxRequests

\* A key has used its N admissions and a later call in the same window was denied.
C1_Witness ==
    /\ maxRequests > 0
    /\ \E k \in Keys :
        /\ requests[k] # Nil
        /\ AdmittedSince(k, requests[k].windowStart) = maxRequests
        /\ \E i \in 1..Len(log) :
            /\ log[i].key = k
            /\ ~log[i].ok
            /\ log[i].t >= requests[k].windowStart

\* The results the calls es[i..] get from a limiter that serves this key alone,
\* starting from record rec, are the results recorded in es.
RECURSIVE AloneFrom(_, _, _)
AloneFrom(es, i, rec) ==
    IF i > Len(es) THEN TRUE
    ELSE LET fresh == rec = Nil \/ WindowExpired(es[i].t, rec.windowStart)
             ok == IF fresh THEN ~ZeroLimit ELSE ~LimitReached(rec.count)
             next == IF ~ok THEN rec
                     ELSE IF fresh THEN NewWindowData(es[i].t)
                     ELSE [rec EXCEPT !.count = rec.count + 1]
         IN es[i].ok = ok /\ AloneFrom(es, i + 1, next)

\* C2: keys never interact: the step deciding Allow(k) leaves the record of
\* every other key as it was, and the results of the calls for a key are those
\* a limiter serving that key alone would give.
C2_KeysIndependent ==
    /\ [][\A t \in Threads : DecideStep(t) =>
            \A k2 \in Keys \ {addr[t]} : requests'[k2] = requests[k2]]_vars
    /\ [](\A k \in Keys : AloneFrom(CallsOf(k), 1, Nil))

\* One key is at its limit while the other key, called afterwards, was admitted.
C2_Witness ==
    /\ maxRequests > 0
    /\ Len(log) >= 3
    /\ \E i \in 1..Len(log) : ~log[i].ok /\ i < Len(log)
            /\ log[Len(log)].key # log[i].key /\ log[Len(log)].ok
            /\ log[Len(log)].t = log[i].t

\* C3: with limit 0 every call is denied, for every key, at every time, and
\* no record is ever stored.
C3_ZeroLimitDeniesAll ==
    maxRequests = 0 =>
        /\ \A i \in 1..Len(log) : ~log[i].ok
        /\ \A t \in Threads : ~ret[t]
        /\ \A k \in Keys : requests[k] = Nil

\* Limit 0: both keys were called, one of them again after more than W.
C3_Witness ==
    /\ maxRequests = 0
    /\ \E i, j \in 1..Len(log) : log[i].key # log[j].key
    /\ \E i, j \in 1..Len(log) :
        i < j /\ log[i].key = log[j].key /\ log[j].t - log[i].t > window

\* C4: a call for a key made more than W after the key's window start is
\* admitted and leaves the record count = 1, windowStart = now, whatever the
\* count was.
C4_ExpiredWindowResets ==
    [][\A t \in Threads :
        (DecideStep(t) /\ wd[t] # Nil /\ nowv[t] - wd[t].windowStart > window) =>
            /\ ret'[t]
            /\ log'[Len(log')].ok
            /\ requests'[addr[t]] = [count |-> 1, windowStart |-> nowv[t]]]_vars

\* A key was denied in one window and admitted by a later call that started a
\* new window.
C4_Witness ==
    \E k \in Keys :
        /\ requests[k] # Nil
        /\ requests[k].count = 1
        /\ \E i \in 1..Len(log) :
            /\ log[i].key = k
            /\ ~log[i].ok
            /\ requests[k].windowStart - log[i].t > 0
        /\ log[Len(log)] = [key |-> k, t |-> requests[k].windowStart, ok |-> TRUE]

\* C5: the check and the update of a call are one atomic step: at most one
\* thread is between Lock and Unlock, each key's stored count is the number
\* of calls admitted in its window, and of the M calls made in the window
\* min(M, N) were admitted.
C5_AtomicCheckAndUpdate ==
    /\ Cardinality({t \in Threads : pc[t] \in {"locked", "read", "decided"}}) <= 1
    /\ \A t \in Threads : pc[t] \in {"locked", "read", "decided"} => mutex = t
    /\ \A k \in Keys :
        requests[k] # Nil =>
            LET ws == requests[k].windowStart IN
                /\ requests[k].count = AdmittedSince(k, ws)
                /\ AdmittedSince(k, ws) = Min(CallsSince(k, ws), maxRequests)

\* Two threads are inside Allow for the same key at once, one holding the
\* mutex, the other blocked on it, in a window that already has a call denied.
C5_Witness ==
    \E t, u \in Threads :
        /\ t # u
        /\ pc[t] = "read"
        /\ pc[u] = "waiting"
        /\ addr[t] = addr[u]
        /\ requests[addr[t]] # Nil
        /\ CallsSince(addr[t], requests[addr[t]].windowStart) > maxRequests

\* --------------------------------------------------------- storage: claims

\* C6: SaveLicense for a license whose CustomerID has no stored customer
\* returns an error, on every backend.
C6_SaveLicenseNeedsCustomer ==
    (last.op = "SaveLicense" /\ customers[last.ent.CustomerID] = Nil) =>
        last.err # ErrNone

\* C7: every stored license's CustomerID is the ID of a stored customer, in
\* every reachable state of every backend.
C7_ReferentialIntegrity ==
    \A l \in Stored(licenses) : customers[licenses[l].CustomerID] # Nil

\* C8: no two stored licenses with different IDs have the same Key, in every
\* reachable state of every backend.
C8_LicenseKeysUnique ==
    \A l1, l2 \in Stored(licenses) :
        l1 # l2 => licenses[l1].Key # licenses[l2].Key

\* C9: no two stored customers with different IDs have the same Email, also
\* while purchase events are provisioned concurrently.
C9_CustomerEmailsUnique ==
    \A c1, c2 \in Stored(customers) :
        c1 # c2 => customers[c1].Email # customers[c2].Email

\* The read recorded in last found no matching entity.
NothingMatches ==
    CASE last.op = "GetCustomer" -> customers[last.id] = Nil
      [] last.op = "FindCustomerByEmailAddress" ->
            \A c \in Stored(customers) : customers[c].Email # last.id
      [] last.op = "GetLicense" -> licenses[last.id] = Nil
      [] last.op = "FindLicenseByKey" ->
            \A l \in Stored(licenses) : licenses[l].Key # last.id
      [] last.op = "FindLicensesByCustomer" ->
            \A l \in Stored(licenses) : licenses[l].CustomerID # last.id
      [] OTHER -> FALSE

\* C10: a read that finds no matching entity (and meets no driver failure)
\* returns a nil entity, or an empty list, and a nil error.
C10_AbsenceIsNotAnError ==
    (NothingMatches /\ ~last.fail) =>
        last.val = Nil /\ last.list = {} /\ last.err = ErrNone

\* The SQLite backend, holding a license, was asked for a key no license has.
C10_Witness ==
    /\ backend = "sqlite"
    /\ last.op = "FindLicenseByKey"
    /\ ~last.fail
    /\ NothingMatches
    /\ Stored(licenses) # {}

\* The number of stored entities of a map or table.
Count(m) == Cardinality(Stored(m))

\* C11: SaveCustomer and SaveLicense are upserts by ID: after a successful
\* Save(x), Get(x.ID) returns an entity equal to x; a Save under a stored ID
\* does not increase the number of stored entities; and saving an entity a
\* second time leaves the state the first save left.
C11_UpsertByID ==
    /\ (last.op = "SaveCustomer" /\ last.err = ErrNone) =>
           \A r \in GetCustomer(last.id, FALSE) : r.err = ErrNone /\ r.val = last.ent
    /\ (last.op = "SaveLicense" /\ last.err = ErrNone) =>
           \A r \in GetLicense(last.id, FALSE) : r.err = ErrNone /\ r.val = last.ent
    /\ \A c \in CustomerInputs :
           LET once == SaveCustomer(customers, licenses, c, FALSE) IN
               /\ customers[c.ID] # Nil => Count(once.customers) <= Count(customers)
               /\ SaveCustomer(once.customers, licenses, c, FALSE) = once
    /\ \A l \in LicenseInputs :
           LET once == SaveLicense(customers, licenses, l, FALSE) IN
               /\ licenses[l.ID] # Nil => Count(once.licenses) <= Count(licenses)
               /\ SaveLicense(customers, once.licenses, l, FALSE) = once

\* C12: the three backends, given the same calls from empty, return the same
\* result to each call: the same entity or list, and an error on all or on none.
C12_BackendsEquivalent ==
    \A b1, b2 \in Backends :
        /\ answers[b1].val = answers[b2].val
        /\ answers[b1].list = answers[b2].list
        /\ (answers[b1].err = ErrNone) <=> (answers[b2].err = ErrNone)

\* C13: the operations of the MemoryStorage exclude one another: at no time
\* are two goroutines inside its methods, using the maps.
C13_MemoryOpsExclusive == Cardinality(Inside) <= 1

\* ------------------------------------------------------ validation: claims

\* The last request reached the lookup and the lookup returned a license.
LicenseFound == vresp.calls # <<>> /\ vresp.found.err = ErrNone /\ vresp.found.val # Nil

\* C14: for a license found by key the verdict is positive only if its status
\* is Active; every other status gets HTTP 200, valid=false and the message
\* "license not active", which is not the message of a key not found.
C14_OnlyActiveIsValid ==
    LicenseFound =>
        /\ vresp.valid => vresp.found.val.Status = "active"
        /\ vresp.found.val.Status # "active" =>
               /\ vresp.status = 200
               /\ vresp.verdict
               /\ ~vresp.valid
               /\ vresp.message = "license not active"
               /\ vresp.message # "license not found"

\* A license with the empty status, and one with a status no constant names,
\* was found and refused.
C14_Witness ==
    /\ LicenseFound
    /\ vresp.found.val.Status \in {"", "revoked"}
    /\ vresp.message = "license not active"


\* The step handles a validate request (a request repeated with the same
\* response at the same time leaves the state as it is).
ValidateStep == vresp' # vresp

\* No stored license has the key.
NoLicenseWithKey(key) == \A l \in Stored(licenses) : licenses[l].Key # key

\* The response of a key not found, written by a step that left the storage
\* as it was.
AnsweredNotFound ==
    /\ vresp'.status = 200
    /\ vresp'.verdict
    /\ ~vresp'.valid
    /\ vresp'.message = "license not found"
    /\ customers' = customers
    /\ licenses' = licenses

\* C15 as stated: a POST with a non-empty key no stored license has (and a
\* lookup that does not fail) gets HTTP 200, valid=false, "license not found",
\* and the storage is unchanged.
C15_NonEmptyUnknownKey ==
    [][(/\ ValidateStep
        /\ vresp'.method = "POST"
        /\ Decode(vresp'.body).err = ErrNone
        /\ vresp'.req.LicenseKey # ""
        /\ NoLicenseWithKey(vresp'.req.LicenseKey)
        /\ vresp'.found.err = ErrNone) => AnsweredNotFound]_vars

\* C15, amended: the same for a key that is not blank, that is, not empty
\* after white space is trimmed.
C15_UnknownKeyNotFound ==
    [][(/\ ValidateStep
        /\ vresp'.method = "POST"
        /\ Decode(vresp'.body).err = ErrNone
        /\ TrimSpace(Chars(vresp'.req.LicenseKey)) # <<>>
        /\ NoLicenseWithKey(vresp'.req.LicenseKey)
        /\ vresp'.found.err = ErrNone) => AnsweredNotFound]_vars

\* A key no license has was validated against a SQLite storage that holds a
\* license, and was answered "license not found".
C15_Witness ==
    /\ backend = "sqlite"
    /\ Stored(licenses) # {}
    /\ vresp.method = "POST"
    /\ vresp.req.LicenseKey = "AFP-9"
    /\ NoLicenseWithKey("AFP-9")
    /\ vresp.calls = <<"FindLicenseByKey">>
    /\ vresp.message = "license not found"

\* The request cannot be validated: its body is not JSON, or its key is
\* missing, empty or white space only.
BadRequest ==
    \/ Decode(vresp.body).err # ErrNone
    \/ vresp.body.license_key = Absent
    \/ TrimSpace(Chars(vresp.req.LicenseKey)) = <<>>

\* C16: a POST whose body is malformed JSON or whose license key is missing,
\* empty or white space only gets HTTP 400, and no Storage operation is
\* invoked for it.
C16_BadRequestBeforeStorage ==
    (vresp.method = "POST" /\ BadRequest) =>
        /\ vresp.status = 400
        /\ ~vresp.verdict
        /\ vresp.calls = <<>>

\* A key of white space only was refused without a lookup.
C16_Witness ==
    /\ vresp.method = "POST"
    /\ vresp.body.license_key = "   "
    /\ vresp.status = 400
    /\ vresp.calls = <<>>
    /\ Stored(licenses) # {}

\* C17: when the lookup fails with a storage error the response is HTTP 500
\* with the generic message, and no verdict: not "license not found",
\* "license not active" or "license valid".
C17_StorageErrorIsInternal ==
    (vresp.calls # <<>> /\ vresp.found.err # ErrNone) =>
        /\ vresp.status = 500
        /\ vresp.error = "something went wrong"
        /\ ~vresp.verdict
        /\ vresp.message \notin {"license not found", "license not active", "license valid"}

\* The lookup of a stored, active license's key failed in the driver.
C17_Witness ==
    /\ vresp.calls # <<>>
    /\ vresp.found.err = ErrDriver
    /\ vresp.status = 500
    /\ \E l \in Stored(licenses) :
           licenses[l].Key = vresp.req.LicenseKey /\ licenses[l].Status = "active"


\* The last request found a license whose status is Active.
ActiveLicenseFound == LicenseFound /\ vresp.found.val.Status = "active"

\* C18: for an Active license and well-formed versions the verdict is positive
\* if and only if the major version of the license equals the major version
\* of the client's app version.
C18_MajorVersionAware ==
    LET licenseMajor == ExtractMajorVersion(vresp.found.val.Version)
        requestedMajor == ExtractMajorVersion(vresp.req.AppVersion)
    IN (ActiveLicenseFound /\ licenseMajor.err = ErrNone /\ requestedMajor.err = ErrNone) =>
           /\ vresp.verdict
           /\ vresp.valid <=> licenseMajor.val = requestedMajor.val

\* C19: for an Active license, a malformed license version or app version
\* gets a negative verdict with the message "invalid version format".
C19_MalformedVersionRefused ==
    (ActiveLicenseFound
     /\ IsCompatible(vresp.found.val.Version, vresp.req.AppVersion).err # ErrNone) =>
        /\ vresp.verdict
        /\ ~vresp.valid
        /\ vresp.message = "invalid version format"

\* Two verdicts agree on the valid flag, the message and the timestamp.
SameSignedFields(x, y) ==
    x.valid = y.valid /\ x.message = y.message /\ x.timestamp = y.timestamp

\* C20: the signature of every verdict is the MAC, under the signing secret,
\* of that response's own valid flag, message and timestamp; and of two
\* verdicts written one after the other, those that agree on the three
\* fields carry the same signature and (a MAC being taken as free of
\* collisions) those that differ in one of them do not.
C20_SignatureOfOwnFields ==
    /\ [](vresp.verdict =>
            vresp.signature =
                generateHMACSignature(vresp.valid, vresp.message, vresp.timestamp))
    /\ [][(vresp.verdict /\ vresp'.verdict) =>
            (SameSignedFields(vresp, vresp') <=> vresp'.signature = vresp.signature)]_vars

\* A negative verdict was signed under a configured secret, later than time 0.
C20_Witness ==
    /\ vresp.verdict
    /\ ~vresp.valid
    /\ vresp.timestamp > 0
    /\ hmacSecret # ""
    /\ vresp.signature = Base64(HMAC("k1", Payload(FALSE, vresp.message, vresp.timestamp)))


\* -------------------------------------------------- provisioning: claims

\* The step provisions a purchase event without error, one request at a time.
ProvisionStep == last'.op = "Provision" /\ last'.err = ErrNone /\ last' # last

\* The stored customers with an e-mail address.
CustomersWithEmail(cs, e) == {c \in Stored(cs) : cs[c].Email = e}

\* C21: when the e-mail of a purchase event belongs to a stored customer,
\* provisioning it creates no customer (the customers are unchanged) and the
\* new license's CustomerID is the ID of a stored customer with that e-mail.
C21_FindBeforeCreate ==
    [][(ProvisionStep /\ CustomersWithEmail(customers, last'.id) # {}) =>
           /\ customers' = customers
           /\ Count(customers') = Count(customers)
           /\ last'.ent.CustomerID \in CustomersWithEmail(customers, last'.id)
           /\ licenses'[last'.ent.ID] = last'.ent]_vars

\* A purchase was provisioned for the customer who already had a license:
\* one customer, two licenses, both hers.
C21_Witness ==
    /\ last.op = "Provision"
    /\ last.err = ErrNone
    /\ Count(customers) = 1
    /\ Count(licenses) = 2
    /\ \A l \in Stored(licenses) :
           licenses[l].CustomerID \in CustomersWithEmail(customers, last.id)

\* ------------------------------------------- customers created at two times

\* models.Customer as a direct caller builds it at different times
\* (storage_test.go:14-22: CreatedAt is time.Now()).
DatedCustomerInputs ==
    [ID : CustIDs, Email : Emails, Name : CustomerNames, Country : {"NO"},
     StripeCustomerID : {"cus_1"}, CreatedAt : 0..MaxTime, UpdatedAt : {0}]

NextLookup ==
    \/ \E c \in DatedCustomerInputs : CallSaveCustomer(c)
    \/ \E e \in Emails : CallFindCustomerByEmailAddress(e)
    \/ \E s \in Sessions : HandleCheckoutComplete(s)

\* Customers saved with their creation times, looked up by e-mail directly
\* and by provisioning, one call at a time.
SpecLookup == InitStore /\ [][NextLookup]_vars

\* The customers stored with e-mail e that none with that e-mail precedes.
EarliestWithEmail(cs, e) ==
    {c \in CustomersWithEmail(cs, e) :
        \A d \in CustomersWithEmail(cs, e) : cs[c].CreatedAt <= cs[d].CreatedAt}

\* C22: when two distinct customers with the same e-mail are stored, created
\* at different times, FindCustomerByEmailAddress (called directly or by
\* provisioning) returns the one created earlier.
C22_EarlierCustomerFound ==
    (/\ last.op \in {"FindCustomerByEmailAddress", "Provision"}
     /\ last.err = ErrNone
     /\ Cardinality(CustomersWithEmail(customers, last.id)) = 2
     /\ Cardinality(EarliestWithEmail(customers, last.id)) = 1)
        => /\ last.val # Nil
           /\ last.val.ID \in EarliestWithEmail(customers, last.id)

\* ------------------------------------------- from the webhook to validation

\* Purchase events as the integration test delivers them
\* (integration_test.go:29-50: a checkout.session.completed event with a
\* header that is no signature of it, in test mode).
PurchaseDeliveries ==
    {r \in WebhookRequests :
        /\ r.content.type = "checkout.session.completed"
        /\ r.content.data = "session"
        /\ r.header = ComputeSignature("whsec_other", r.content)}

\* Validate requests for the keys provisioning issues
\* (integration_test.go:76-87).
IssuedKeyRequests ==
    [method : {"POST"},
     body : [json : {"object"}, license_key : LicKeys,
             app_version : {"1.0.0", "2.0.0"}]]

NextEndToEnd ==
    \/ \E r \in PurchaseDeliveries : Stripe(r)
    \/ \E request \in IssuedKeyRequests : V_ValidateAt(request, {clock})

\* A server in test mode that is sent purchase events and validate requests,
\* one after the other.
SpecEndToEnd == InitStore /\ [][NextEndToEnd]_vars

\* The validate request answered in this step names the key of a stored
\* license and an app version of major version 1, and its lookup met no
\* driver failure.
ValidatesIssuedKey ==
    /\ ValidateStep
    /\ vresp'.method = "POST"
    /\ vresp'.found.err = ErrNone
    /\ \E l \in Stored(licenses) : licenses[l].Key = vresp'.req.LicenseKey
    /\ ExtractMajorVersion(vresp'.req.AppVersion) = [val |-> 1, err |-> ErrNone]

\* C23: a purchase event for an e-mail no customer has, processed
\* successfully on a storage without licenses, is answered 200 and leaves
\* exactly one customer with that e-mail and exactly one license, Active and
\* of that customer; and a validate request with the key of a provisioned
\* license and a 1.x app version is answered valid, "license valid".
C23_ProvisionThenValidate ==
    [][/\ (ProvisionStep /\ CustomersWithEmail(customers, last'.id) = {}
                         /\ Count(licenses) = 0) =>
              /\ wresp'.status = 200
              /\ Cardinality(CustomersWithEmail(customers', last'.id)) = 1
              /\ Count(licenses') = 1
              /\ \A l \in Stored(licenses') :
                     /\ licenses'[l].Status = StatusActive
                     /\ licenses'[l].Version = "1.0.0"
                     /\ licenses'[l].CustomerID \in CustomersWithEmail(customers', last'.id)
       /\ ValidatesIssuedKey =>
              /\ vresp'.status = 200
              /\ vresp'.valid
              /\ vresp'.message = "license valid"]_vars

C23_Witness ==
    /\ wresp.status = 200 /\ wresp.handled
    /\ Count(customers) = 1 /\ Count(licenses) = 1
    /\ vresp.status = 200 /\ vresp.valid /\ vresp.message = "license valid"
    /\ vresp.req.AppVersion = "1.0.0"
    /\ \E l \in Stored(licenses) :
           /\ licenses[l].Key = vresp.req.LicenseKey
           /\ customers[licenses[l].CustomerID].Email = wresp.content.session.email

\* C24: each successful delivery of a purchase event whose e-mail at most one
\* customer has leaves exactly one customer with that e-mail and adds one
\* license, with an ID of its own and the event's session reference, to the
\* licenses stored before; so k deliveries of one event leave one customer
\* and k licenses of that session.
C24_RedeliveryAddsLicense ==
    [][(ProvisionStep /\ Cardinality(CustomersWithEmail(customers, last'.id)) <= 1) =>
           /\ Cardinality(CustomersWithEmail(customers', last'.id)) = 1
           /\ Count(licenses') = Count(licenses) + 1
           /\ \A l \in Stored(licenses) : licenses'[l] = licenses[l]
           /\ last'.ent.ID \notin Stored(licenses)
           /\ licenses'[last'.ent.ID].StripeSessionID = wresp'.content.session.id]_vars

\* The same, for deliveries whose generated key no stored license has.
RedeliveryWithFreshKey ==
    [][(ProvisionStep /\ Cardinality(CustomersWithEmail(customers, last'.id)) <= 1
          /\ \A l \in Stored(licenses) : licenses[l].Key # last'.ent.Key) =>
           /\ Cardinality(CustomersWithEmail(customers', last'.id)) = 1
           /\ Count(licenses') = Count(licenses) + 1
           /\ \A l \in Stored(licenses) : licenses'[l] = licenses[l]
           /\ last'.ent.ID \notin Stored(licenses)
           /\ licenses'[last'.ent.ID].StripeSessionID = wresp'.content.session.id]_vars

\* C25: when the e-mail with the key cannot be sent after the license was
\* saved, handleCheckoutComplete returns no error, the webhook answers 200,
\* and the customer and the license stay stored.
C25_MailFailureNotFatal ==
    (wresp.handled /\ wresp.mail = "failed") =>
        /\ wresp.err = ErrNone
        /\ wresp.status = 200
        /\ licenses[last.ent.ID] = last.ent
        /\ customers[last.ent.CustomerID] # Nil
        /\ customers[last.ent.CustomerID].Email = wresp.content.session.email

C25_Witness ==
    /\ wresp.handled /\ wresp.mail = "failed" /\ wresp.status = 200
    /\ last.op = "Provision" /\ last.err = ErrNone
    /\ licenses[last.ent.ID] = last.ent

\* ------------------------------------------------------------ server: claims

\* C26: of the validate requests one remote address sends within the first
\* minute (and it sends no webhook deliveries), the first ServerLimit = 10
\* reach ValidateLicense and every later one is answered 429; and for a
\* request answered 429 no handler ran and no Storage call was made.
C26_EleventhIsRejected ==
    /\ \A k \in Clients :
           (clock <= ServerWindow /\ ~mixed[k]) => passed[k] = Min(seen[k], ServerLimit)
    /\ (/\ hx.path = "/v1/licenses/validate" /\ hx.method # "OPTIONS"
        /\ clock <= ServerWindow /\ ~mixed[hx.addr] /\ seen[hx.addr] > ServerLimit)
           => hx.status = 429
    /\ hx.status = 429 =>
           /\ hx.consulted /\ ~hx.allowed
           /\ hx.handler = "none"
           /\ hx.calls = <<>>

C26_Witness ==
    /\ clock <= ServerWindow
    /\ hx.path = "/v1/licenses/validate" /\ hx.addr = "ip1" /\ hx.status = 429
    /\ ~mixed["ip1"] /\ seen["ip1"] = ServerLimit + 1 /\ passed["ip1"] = ServerLimit

\* ----------------------------------------------------------- webhook: claims

\* A delivery was answered in this step.
DeliveryStep == wresp' # wresp \/ last' # last

\* The delivery in d came as far as the signature check with a header that is
\* not the signature of its payload under the webhook secret.
BadSignature(d) ==
    /\ env.STRIPE_SECRET_KEY # ""
    /\ d.content.body = "event"
    /\ env.STRIPE_WEBHOOK_SECRET # ""
    /\ d.header # ComputeSignature(env.STRIPE_WEBHOOK_SECRET, d.content)

C28_NoBypassInProduction ==
    (env.ENVIRONMENT = "production" /\ wresp.handled) =>
        /\ env.STRIPE_WEBHOOK_SECRET # ""
        /\ wresp.header = ComputeSignature(env.STRIPE_WEBHOOK_SECRET, wresp.content)

\* C29: a handler of /v1/licenses/validate, /v1/webhooks/stripe or /v1/health
\* runs only for a request that Allow(remote address) admitted, and a request
\* Allow refused is answered 429.
C29_AllEndpointsGated ==
    /\ hx.handler # "none" => hx.consulted /\ hx.allowed
    /\ (hx.consulted /\ ~hx.allowed) => hx.status = 429

\* ------------------------------------------- rate limiter: the window's edge

\* C30: a call for a key with a record, made when now - windowStart is at most
\* W (exactly W included), is judged against the record's count: denied, the
\* record untouched, when count >= N, else admitted with the count one higher
\* in the same window; only when now - windowStart exceeds W does the call
\* start a new window, with count 1 whatever the old count was.
C30_StrictWindowExpiry ==
    [][\A t \in Threads :
        (DecideStep(t) /\ wd[t] # Nil) =>
            IF nowv[t] - wd[t].windowStart <= window
            THEN /\ ret'[t] = (wd[t].count < maxRequests)
                 /\ requests'[addr[t]] =
                        (IF wd[t].count >= maxRequests THEN wd[t]
                         ELSE [count |-> wd[t].count + 1,
                               windowStart |-> wd[t].windowStart])
            ELSE /\ ret'[t]
                 /\ requests'[addr[t]] = [count |-> 1, windowStart |-> nowv[t]]]_vars

\* A call made exactly W after its key's window started, W > 0, was denied
\* because the window was full.
C30_Witness ==
    /\ window > 0
    /\ log # <<>>
    /\ LET e == log[Len(log)] IN
        /\ ~e.ok
        /\ requests[e.key] # Nil
        /\ e.t - requests[e.key].windowStart = window
        /\ requests[e.key].count = maxRequests

\* ----------------------------------------------- validation: order of checks

\* The messages that report the outcome of a version comparison
\* (handlers/license.go:55-62).
VersionMessages ==
    {"invalid version format", "Invalid version format",
     "license not valid for this app version", "License not valid for this app version"}

\* C31: a license found with a status other than Active is answered "license
\* not active" also when its version or the app version is malformed or of
\* another major version, and a message about versions is written only for a
\* license that is Active.
C31_StatusBeforeVersion ==
    /\ (LicenseFound /\ vresp.found.val.Status # "active"
          /\ IsCompatible(vresp.found.val.Version, vresp.req.AppVersion)
                 # [val |-> TRUE, err |-> ErrNone]) =>
           /\ ~vresp.valid
           /\ vresp.message = "license not active"
    /\ vresp.message \in VersionMessages => ActiveLicenseFound

\* A suspended license with a malformed version was refused for its status.
C31_Witness ==
    /\ LicenseFound
    /\ vresp.found.val.Status = "suspended"
    /\ vresp.found.val.Version = "invalid"
    /\ vresp.req.AppVersion = "2.0.0"
    /\ vresp.message = "license not active"

\* --------------------------------------------- provisioning: storage errors

\* The delivery answered in this step was handed to handleCheckoutComplete.
HandledStep == DeliveryStep /\ wresp'.handled /\ last'.op = "Provision"

\* C32: when the customer lookup, SaveCustomer or SaveLicense of a delivery
\* fails, createLicensedUser returns an error and no license, no license is
\* stored, no e-mail is sent and the webhook answers 500.
C32_StorageErrorFailsDelivery ==
    [][(HandledStep /\ last'.fail) =>
           /\ last'.err # ErrNone
           /\ last'.ent = Nil
           /\ licenses' = licenses
           /\ wresp'.err # ErrNone
           /\ wresp'.mail = "none"
           /\ wresp'.status = 500]_vars

\* A delivery failed after a customer and a license had been stored.
C32_Witness ==
    /\ wresp.handled /\ wresp.status = 500 /\ wresp.mail = "none"
    /\ last.op = "Provision" /\ last.fail /\ last.err = ErrDriver
    /\ Count(licenses) = 1

\* The delivery in d is an event that passes for authentic: signed with the
\* webhook secret or, in test mode, not checked.
Authenticated(d) ==
    /\ env.STRIPE_SECRET_KEY # ""
    /\ d.content.body = "event"
    /\ \/ env.TEST_MODE = "true"
       \/ /\ env.STRIPE_WEBHOOK_SECRET # ""
          /\ d.header = ComputeSignature(env.STRIPE_WEBHOOK_SECRET, d.content)

\* C33: an authenticated event of a type other than
\* checkout.session.completed is answered 200 with received=true, without
\* handleCheckoutComplete being called, without an e-mail, and with the
\* stored customers and licenses unchanged.
C33_OnlyCheckoutProvisions ==
    [][(wresp' # wresp /\ Authenticated(wresp')
          /\ wresp'.content.type # "checkout.session.completed") =>
           /\ wresp'.status = 200
           /\ wresp'.received
           /\ ~wresp'.handled
           /\ wresp'.mail = "none"
           /\ customers' = customers
           /\ licenses' = licenses]_vars

\* A signed invoice.paid event was acknowledged by a server outside test
\* mode that holds a license.
C33_Witness ==
    /\ env.TEST_MODE # "true"
    /\ wresp.content.type = "invoice.paid"
    /\ wresp.header = ComputeSignature(env.STRIPE_WEBHOOK_SECRET, wresp.content)
    /\ wresp.status = 200 /\ wresp.received
    /\ Count(licenses) = 1


\* ------------------------------------------------- file backend: persistence

\* The records of the file.
FileRecords == {fileData[i] : i \in 1..Len(fileData)}

\* C34: no call on a FileStorage changes its file, and a FileStorage created
\* again from the same path holds the customers of the file and no licenses.
C34_FileNeverWritten ==
    [][/\ fileData' = fileData
       /\ last'.op = "NewFileStorage" =>
              /\ customers' = LoadFromFile(fileData)
              /\ {customers'[id] : id \in Stored(customers')} = FileRecords
              /\ Stored(licenses') = {}]_vars

\* A FileStorage opened on a file with one customer replaced an instance that
\* held a customer and a license the file does not, and has neither.
C34_Witness ==
    /\ last.op = "NewFileStorage"
    /\ fileData # <<>>
    /\ \E c \in last.list : c \notin FileRecords /\ c.ID \in CustIDs
                            /\ customers[c.ID] = Nil
    /\ \E l \in last.list : l.ID \in LicIDs


\* ------------------------------------------------ rate limiter: refused calls

\* Thread t's call is decided in this step, and refused.
DeniedStep(t) == pc[t] = "read" /\ pc'[t] = "decided" /\ ~ret'[t]

\* C35: a call that Allow refuses leaves every record of the limiter as it
\* was, so the time from which the key is admitted again is the same after
\* the call as before it.
C35_DeniedChangesNothing ==
    [][\A t \in Threads : DeniedStep(t) =>
           /\ requests' = requests
           /\ \A k \in Keys, tm \in 0..(MaxTime + MaxWindow + 1) :
                  AllowOn(requests'[k], k, tm).ok = AllowOn(requests[k], k, tm).ok]_vars

\* A call made after the start of its key's window was refused, and the
\* window still starts where it did.
C35_Witness ==
    \E t \in Threads :
        /\ pc[t] = "decided" /\ ~ret[t]
        /\ requests[addr[t]] # Nil
        /\ nowv[t] > requests[addr[t]].windowStart


\* ------------------------------------------------- rate limiter: burst bound

\* The number of calls for key k that Allow admitted at a time in [a, b].
Admitted(k, a, b) ==
    Cardinality({i \in 1..Len(log) :
                    log[i].key = k /\ log[i].ok /\ a <= log[i].t /\ log[i].t <= b})

\* C36: with a positive limit N, no key is admitted more than 2N-1 times in
\* an interval no longer than the window, wherever the interval lies.
C36_BurstBound ==
    maxRequests > 0 =>
        \A k \in Keys, a \in 0..MaxTime, len \in 0..window :
            Admitted(k, a, a + len) <= 2 * maxRequests - 1

\* The bound is met: with limit 2 and window 1, three calls of one key were
\* admitted at times 1 and 2, across the end of the window that began at 0.
C36_Witness ==
    /\ maxRequests = 2 /\ window = 1
    /\ \E k \in Keys : Admitted(k, 1, 2) = 3 /\ Admitted(k, 0, 0) = 1


\* ------------------------------------------------- provisioning: no rollback

\* The licenses of customer id among ls.
LicensesOf(ls, id) == {l \in Stored(ls) : ls[l].CustomerID = id}

\* C37: when the event's e-mail has no customer and createLicensedUser fails
\* saving the license, the delivery is answered 500, no license is stored, and
\* the customer created for the event stays stored, without a license; a
\* later delivery for the e-mail of a lone customer without licenses creates
\* no customer and gives its license to that customer.
C37_NoRollback ==
    [][/\ (HandledStep /\ CustomersWithEmail(customers, last'.id) = {}
             /\ last'.at = "failed to save license") =>
              /\ last'.err # ErrNone
              /\ wresp'.status = 500
              /\ licenses' = licenses
              /\ Count(customers') = Count(customers) + 1
              /\ \A c \in Stored(customers) : customers'[c] = customers[c]
              /\ \E c \in Stored(customers') \ Stored(customers) :
                     /\ customers'[c].Email = last'.id
                     /\ LicensesOf(licenses', c) = {}
       /\ (HandledStep /\ last'.err = ErrNone
             /\ \E c \in Stored(customers) :
                    /\ CustomersWithEmail(customers, last'.id) = {c}
                    /\ LicensesOf(licenses, c) = {}) =>
              /\ customers' = customers
              /\ CustomersWithEmail(customers, last'.id) = {last'.ent.CustomerID}
              /\ licenses'[last'.ent.ID] = last'.ent]_vars

\* A delivery was answered 500 because its license could not be saved, and
\* the customer created for it is stored with no license.
C37_Witness ==
    /\ wresp.handled /\ wresp.status = 500
    /\ last.op = "Provision" /\ last.at = "failed to save license"
    /\ Count(licenses) = 0
    /\ \E c \in Stored(customers) :
           Stored(customers) = {c} /\ customers[c].Email = last.id


\* --------------------------------------------- provisioning: repeat purchases

\* Purchase events of one address whose customer_details.name and customer
\* differ from one purchase to the next.
RepeatSessions ==
    [email : {"a@x"}, name : {"Ann Lee", "A. Lee"}, country : {"NO"},
     stripeCustomer : {"cus_1", "cus_2"}, productID : {"p1"},
     licenseVersion : {"1.0.0"}, id : {"cs_1"}]

RepeatDeliveries ==
    {[content |-> [body |-> "event", type |-> "checkout.session.completed",
                   data |-> "session", session |-> s],
      header |-> NoHeader] : s \in RepeatSessions}

NextRepeat ==
    \/ \E r \in RepeatDeliveries : Stripe(r)
    \/ Tick

InitRepeat == InitStore

\* A server in test mode that receives the purchases of one address, time
\* passing between them.
SpecRepeat == InitRepeat /\ [][NextRepeat]_vars

\* The event of the delivery in d names a person or a Stripe customer other
\* than customer c's.
EventDiffers(d, c) ==
    \/ d.content.session.name # c.Name
    \/ d.content.session.stripeCustomer # c.StripeCustomerID

\* C38: provisioning an event whose e-mail a stored customer has changes no
\* field of any stored customer, whatever name and Stripe customer the event
\* carries, and adds a license of a customer with that e-mail.
C38_ExistingCustomerUntouched ==
    [][(HandledStep /\ last'.err = ErrNone
          /\ CustomersWithEmail(customers, last'.id) # {}) =>
           /\ customers' = customers
           /\ last'.val \in {customers[c] : c \in CustomersWithEmail(customers, last'.id)}
           /\ last'.ent.ID \notin Stored(licenses)
           /\ licenses'[last'.ent.ID] = last'.ent
           /\ last'.ent.CustomerID = last'.val.ID]_vars

\* An event with another name and another Stripe customer was provisioned,
\* later than the customer was created, and the customer is as it was
\* created.
C38_Witness ==
    /\ wresp.handled /\ last.op = "Provision" /\ last.err = ErrNone
    /\ \E c \in Stored(customers) :
           /\ customers[c].Email = last.id
           /\ wresp.content.session.name # customers[c].Name
           /\ wresp.content.session.stripeCustomer # customers[c].StripeCustomerID
           /\ customers[c].UpdatedAt = customers[c].CreatedAt
           /\ last.ent.CustomerID = c
           /\ last.ent.CreatedAt > customers[c].CreatedAt


\* ------------------------------------------------ server: one limiter, shared

\* The step serves a request (other than OPTIONS) to one of the two routes
\* NewHttpServer registers behind withRateLimit; hx' describes it.
LimitedRouteStep ==
    /\ clock' = clock
    /\ hx'.path \in {"/v1/licenses/validate", "/v1/webhooks/stripe"}
    /\ hx'.method # "OPTIONS"

\* The record of remote address k shows its window open and used up.
Exhausted(k) ==
    /\ requests[k] # Nil
    /\ ~WindowExpired(clock, requests[k].windowStart)
    /\ requests[k].count >= maxRequests

\* C39: a request to the validate route and one to the webhook route are
\* judged by the same Allow on the same per-address record: either is counted
\* in it when admitted, and either is answered 429, no handler run, once the
\* address has used its admissions of the window, also when all of them were
\* used on the other route.
C39_SharedLimiter ==
    [][LimitedRouteStep =>
        LET k == hx'.addr IN
           /\ hx'.consulted
           /\ hx'.allowed = Allow(k).ok
           /\ requests' = Allow(k).reqs
           /\ Exhausted(k) => hx'.status = 429 /\ hx'.handler = "none"
           /\ (/\ hx'.path = "/v1/webhooks/stripe"
               /\ ~mixed[k] /\ clock <= ServerWindow /\ passed[k] >= ServerLimit)
                  => hx'.status = 429
           /\ (hx'.path = "/v1/licenses/validate" /\ seen[k] = 0 /\ Exhausted(k))
                  => hx'.status = 429]_vars

\* After ten validate requests, all admitted, a delivery to the webhook from
\* the same address in the same minute was answered 429.
C39_Witness ==
    /\ clock = 0
    /\ hx.path = "/v1/webhooks/stripe" /\ hx.method = "POST" /\ hx.addr = "ip1"
    /\ hx.status = 429
    /\ seen["ip1"] = ServerLimit /\ passed["ip1"] = ServerLimit
    /\ requests["ip1"].count = ServerLimit


\* ------------------------------------------------------ server: preflights

\* The step serves an OPTIONS request to one of the two routes behind the
\* middleware chain; hx' describes it.
PreflightStep ==
    /\ clock' = clock
    /\ hx'.path \in {"/v1/licenses/validate", "/v1/webhooks/stripe"}
    /\ hx'.method = "OPTIONS"

\* C40: an OPTIONS request to a route behind the chain is answered 200 by
\* withCORS, the outermost middleware: Allow is not called, so the limiter's
\* records are as before and the answer is never 429, also for an address
\* whose window is used up; no handler runs and no Storage call is made.
C40_PreflightBeforeLimiter ==
    [][PreflightStep =>
           /\ hx'.status = 200
           /\ ~hx'.consulted
           /\ requests' = requests
           /\ hx'.handler = "none"
           /\ hx'.calls = <<>>
           /\ customers' = customers /\ licenses' = licenses /\ last' = last
           /\ vresp' = vresp /\ wresp' = wresp]_vars

\* An OPTIONS request from an address that had used up its window was
\* answered 200, the record still at the limit.
C40_Witness ==
    /\ hx.method = "OPTIONS" /\ hx.path = "/v1/webhooks/stripe" /\ hx.status = 200
    /\ requests[hx.addr] # Nil
    /\ requests[hx.addr].count = ServerLimit
    /\ ~WindowExpired(clock, requests[hx.addr].windowStart)

=============================================================================
